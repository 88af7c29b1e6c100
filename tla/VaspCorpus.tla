----------------------------- MODULE VaspCorpus -----------------------------
(***************************************************************************)
(* A directory of the frozen VASP Wiki corpus and its offline loader.      *)
(*                                                                         *)
(* A directory is a function from the paths it holds to their contents.    *)
(* Contents are what the format distinguishes: a manifest, a release       *)
(* ledger, the notice rendered from a manifest, a license text, the bytes  *)
(* of a page, the checksums of the other files, or a file whose writing    *)
(* was cut short.  A SHA-256 stands for the bytes it was taken of, so it   *)
(* is the content itself.  Fields whose only rule is their syntax (URLs,   *)
(* timestamps, names, sizes) are left out: a manifest the tool did not     *)
(* write is no state of this model.                                        *)
(***************************************************************************)
EXTENDS Integers, Sequences, Functions

CONSTANTS
    Titles,             \* the requested titles; a title stands for its slug
    Pages,              \* upstream pages
    Revisions,          \* revisions of a page, in their order
    LicenseTexts        \* texts the license URL may serve

CONSTANTS NoText, NoRights

ASSUME RevisionsAssumption == Revisions \subseteq Nat \ {0}
ASSUME NoTextAssumption == NoText \notin LicenseTexts

\* The paths of a corpus directory.
License == <<"COPYING.GFDL-1.2.txt">>
Notice == <<"NOTICE">>
Readme == <<"README.md">>
Releases == <<"RELEASES.json">>
Sums == <<"SHA256SUMS">>
Manifest == <<"manifest.json">>
PageFile(pg) == <<"pages", pg.id, pg.revision>>

\* The bytes of revision r of page p, as MediaWiki's SHA-1 identifies them.
Upstream(p, r) == [page |-> p, revision |-> r, sound |-> TRUE]

-----------------------------------------------------------------------------
(* Identity.                                                               *)

\* compute_corpus_digest: everything but the version and the provenance.
Identity(m) ==
    [kind |-> m.kind, rights |-> m.rights, license |-> m.license,
     pages |-> m.pages]

NoDigest == [kind |-> "none"]

\* A manifest of what is preserved, under a version, with its identity.
ManifestOfView(version, view) ==
    [kind |-> view.kind, version |-> version, digest |-> Identity(view),
     rights |-> view.rights, license |-> view.license, pages |-> view.pages]

Unpopulated ==
    ManifestOfView(0,
        [kind |-> "unpopulated", rights |-> NoRights,
         license |-> [text |-> NoText, recorded |-> FALSE, review |-> "pending"],
         pages |-> {}])

Release(version, m, previous) ==
    [version |-> version, kind |-> m.kind, digest |-> Identity(m),
     previous |-> previous]

UnpopulatedAnchor == Release(0, Unpopulated, NoDigest)

\* render_notice: it lists the identity, and so stands for its manifest.
NoticeOf(m) == [type |-> "notice", of |-> m]

\* The files of a directory, sealed by the checksums of all of them.
Seal(files) ==
    [f \in DOMAIN files \cup {Sums} |->
        IF f = Sums THEN [type |-> "sums", of |-> files] ELSE files[f]]

\* What the package ships today.
UnpopulatedCorpus ==
    Seal([f \in {Manifest, Releases, Notice, Readme} |->
            CASE f = Manifest -> [type |-> "manifest", manifest |-> Unpopulated]
              [] f = Releases -> [type |-> "releases",
                                  entries |-> <<UnpopulatedAnchor>>]
              [] f = Notice -> NoticeOf(Unpopulated)
              [] f = Readme -> [type |-> "readme"]])

-----------------------------------------------------------------------------
(* Validation.                                                             *)

\* Site rights that name the accepted license.
CONSTANTS Rights, AcceptedRights

ASSUME RightsAssumption == AcceptedRights \subseteq Rights /\ NoRights \notin Rights

\* An approved review has recorded every field of the license.
ValidLicense(license, requireReviewed) ==
    /\ license.text \in LicenseTexts
    /\ license.review = "approved" => license.recorded
    /\ requireReviewed => license.review = "approved"

ValidPage(pg, requireReviewed) ==
    /\ pg.id \in Titles
    /\ pg.page \in Pages
    /\ pg.revision \in Revisions
    /\ pg.review \in {"pending", "reviewed_no_exceptions", "exception_found"}
    /\ requireReviewed => pg.review = "reviewed_no_exceptions"

\* _validate_upstream: the rights name the accepted license.
ValidUpstream(rights) == rights \in AcceptedRights

ValidManifest(m, requireReviewed) ==
    IF m.kind = "unpopulated"
    THEN m.version = 0 /\ m.pages = {}
    ELSE /\ m.kind = "authoritative"
         /\ m.version # 0
         /\ ValidUpstream(m.rights)
         /\ ValidLicense(m.license, requireReviewed)
         /\ m.pages # {}
         /\ \A pg \in m.pages : ValidPage(pg, requireReviewed)
         /\ \A pg, other \in m.pages :
                pg # other => pg.id # other.id /\ pg.page # other.page

\* The ledger starts at the anchor, its versions grow, it is chained by the
\* previous identity and no identity returns.
ValidReleases(entries) ==
    /\ entries # <<>>
    /\ entries[1] = UnpopulatedAnchor
    /\ \A i \in DOMAIN entries : entries[i].version \in Nat
    /\ \A i, j \in DOMAIN entries :
            i < j => /\ entries[i].version < entries[j].version
                     /\ entries[i].digest # entries[j].digest
    /\ \A i \in DOMAIN entries :
            i > 1 => entries[i].previous = entries[i-1].digest

\* Mutant: a ledger may rewrite what was released.
ExtendsAnyway(base, current) == DOMAIN base \subseteq DOMAIN current

\* releases_extend
ReleasesExtend(base, current) ==
    /\ DOMAIN base \subseteq DOMAIN current
    /\ \A i \in DOMAIN base : current[i] = base[i]

-----------------------------------------------------------------------------
(* The loader.                                                             *)

Holds(dir, f, type) == f \in DOMAIN dir /\ dir[f].type = type

\* Every file but the checksums is listed, with the bytes it has.
Sealed(dir) ==
    /\ Holds(dir, Sums, "sums")
    /\ DOMAIN dir[Sums].of = DOMAIN dir \ {Sums}
    /\ \A f \in DOMAIN dir \ {Sums} : dir[f] = dir[Sums].of[f]

\* Mutant: the checksums are taken as proof of the pages.
VerifiedBySums(content, pg) == TRUE

\* _verified_page_text: size, SHA-256 and SHA-1 of the record.
Verified(content, pg) ==
    content = [type |-> "page", text |-> pg.content]

FilesOf(m) ==
    {Manifest, Releases, Notice, Readme, License}
        \cup {PageFile(pg) : pg \in m.pages}

\* Mutant: the ledger is checked, but not against the manifest.
LatestOfAny(m, entries) == ValidReleases(entries)

\* The manifest is the latest recorded release.
LatestRelease(m, entries) ==
    /\ ValidReleases(entries)
    /\ LET latest == entries[Len(entries)]
       IN  /\ latest.version = m.version
           /\ latest.kind = m.kind
           /\ latest.digest = m.digest

\* load_vasp_wiki_corpus returns a corpus under a policy that pins the text
\* pin; everything else fails closed.
Loads(dir, pin) ==
    /\ Holds(dir, Manifest, "manifest")
    /\ Sealed(dir)
    /\ Holds(dir, Releases, "releases")
    /\ LET m == dir[Manifest].manifest
       IN  /\ ValidManifest(m, TRUE)
           /\ m.digest = Identity(m)
           /\ LatestRelease(m, dir[Releases].entries)
           /\ Notice \in DOMAIN dir /\ dir[Notice] = NoticeOf(m)
           /\ m.kind = "authoritative"
           /\ DOMAIN dir[Sums].of = FilesOf(m)
           /\ dir[License] = [type |-> "license", text |-> m.license.text]
           /\ m.license.text = pin
           /\ \A pg \in m.pages : Verified(dir[PageFile(pg)], pg)
=============================================================================
