--------------------------- MODULE CorpusRelease ---------------------------
(***************************************************************************)
(* How pages enter the VASP Wiki corpus: the maintainer tool fetches        *)
(* revisions from a live wiki into a new staging directory, records a       *)
(* review, appends a release to the ledger, and a pull request copies the   *)
(* staging over the committed corpus.  Several maintainers work at once;    *)
(* the wiki changes between two requests; the tool may die while it writes  *)
(* its files.  It unlinks a file before it writes it anew, and writes the   *)
(* checksums before the manifest and the pages.  A staging directory has    *)
(* one user, so a command that writes is one step, with every directory an  *)
(* interrupted write leaves as an outcome.                                  *)
(*                                                                          *)
(* The wiki, the license server and the pull request are external.  A pull  *)
(* request is merged when the repository's tests pass: the ledger extends   *)
(* the committed one and a populated corpus loads with a pinned license.    *)
(* A command that refuses changes nothing and is a stuttering step.         *)
(***************************************************************************)
EXTENDS VaspCorpus

CONSTANTS
    Maintainers,
    MaxVersion,     \* versions a release may choose (bound)
    MaxCrashes,     \* interrupted writes (bound)
    MaxCommands,    \* commands of all maintainers (bound)
    PageOf,         \* the upstream page a title resolves to
    ReviewArguments \* the options given to the review command

ASSUME PageOfAssumption == PageOf \in [Titles -> Pages]
ASSUME ReviewArgumentsAssumption ==
    ReviewArguments \subseteq [free : SUBSET Titles, excepted : SUBSET Titles,
                               record : BOOLEAN, approve : BOOLEAN]
ASSUME BoundsAssumption ==
    MaxVersion \in Nat /\ MaxCrashes \in Nat /\ MaxCommands \in Nat

VARIABLES
    wiki,           \* the current revision of each page
    siteRights,     \* the rights the site reports now
    committed,      \* the committed corpus
    pin,            \* AUTHORITATIVE_POLICY.license_text_sha256
    staging,        \* the staging directory of each maintainer
    phase,          \* what the tool of each maintainer is doing
    draft,          \* what command_fetch has read so far
    crashes,        \* how many writes were interrupted
    commands,       \* how many commands were given
    reviewed,       \* history: the pages declared free of exceptions
    approved,       \* history: the licenses approved
    released,       \* history: what passed the checks of command_release
    published       \* history: versions and identities committed

tool == <<staging, phase, draft>>
repository == <<committed, pin>>
upstream == <<wiki, siteRights>>
history == <<reviewed, approved, released, published>>
vars == <<upstream, repository, tool, crashes, commands, history>>

Nothing == [x \in {} |-> x]
NoDraft == [titles |-> {}, entries |-> <<>>, rights |-> NoRights, pages |-> {}]

Init ==
    /\ wiki \in [Pages -> {r \in Revisions : \A s \in Revisions : r <= s}]
    /\ siteRights \in AcceptedRights
    /\ committed = UnpopulatedCorpus
    /\ pin = NoText
    /\ staging = [m \in Maintainers |-> Nothing]
    /\ phase = [m \in Maintainers |-> "idle"]
    /\ draft = [m \in Maintainers |-> NoDraft]
    /\ crashes = 0 /\ commands = 0
    /\ reviewed = {} /\ approved = {} /\ released = {} /\ published = {}

\* A maintainer runs the tool once more.
Run(m) ==
    /\ phase[m] = "idle"
    /\ commands < MaxCommands
    /\ commands' = commands + 1

\* read_corpus_directory: a manifest that is valid but perhaps unreviewed,
\* and a valid ledger.  The checksums are not looked at.
Readable(dir) ==
    /\ Holds(dir, Manifest, "manifest")
    /\ ValidManifest(dir[Manifest].manifest, FALSE)
    /\ Holds(dir, Releases, "releases")
    /\ ValidReleases(dir[Releases].entries)

ManifestOf(dir) == dir[Manifest].manifest
EntriesOf(dir) == dir[Releases].entries
Latest(entries) == entries[Len(entries)]

Populated(dir) == ManifestOf(dir).kind = "authoritative"

-----------------------------------------------------------------------------
(* Writing a corpus.                                                       *)

\* _corpus_files: the metadata rendered from the manifest; the README, the
\* license text and the pages as they are in the directory.
CorpusFiles(dir, m, entries) ==
    [f \in FilesOf(m) |->
        CASE f = Manifest -> [type |-> "manifest", manifest |-> m]
          [] f = Releases -> [type |-> "releases", entries |-> entries]
          [] f = Notice -> NoticeOf(m)
          [] OTHER -> dir[f]]

\* The order of the names: metadata before the pages.
Rank(f) ==
    CASE f = License -> 1 [] f = Notice -> 2 [] f = Readme -> 3
      [] f = Releases -> 4 [] f = Sums -> 5 [] f = Manifest -> 6
      [] OTHER -> 7

Cut == [type |-> "cut"]

\* A write that dies at file f has written those before it, and of the pages
\* some.
Points(new) ==
    UNION {LET before == {g \in DOMAIN new : Rank(g) < Rank(f)}
               beside == {g \in DOMAIN new : Rank(g) = Rank(f)} \ {f}
           IN  {<<f, before \cup some>> : some \in SUBSET beside} :
               f \in DOMAIN new}

\* What a write of new over old may leave when the tool dies, or the disk is
\* full: what does not belong to new is gone, and f is as it was, unlinked or
\* cut short.
LeftBehind(old, new) ==
    UNION {LET f == point[1]
               done == point[2]
               paths == (DOMAIN old \cap DOMAIN new) \cup done
               partly == [g \in paths |-> IF g \in done THEN new[g] ELSE old[g]]
           IN  {partly, Restrict(partly, paths \ {f}),
                [g \in paths \cup {f} |-> IF g = f THEN Cut ELSE partly[g]]} :
               point \in Points(new)}

\* _write_corpus: whole, or interrupted.
Write(m, contents) ==
    \/ /\ staging' = [staging EXCEPT ![m] = Seal(contents)]
       /\ UNCHANGED crashes
    \/ /\ crashes < MaxCrashes
       /\ crashes' = crashes + 1
       /\ \E left \in LeftBehind(staging[m], Seal(contents)) :
                staging' = [staging EXCEPT ![m] = left]

-----------------------------------------------------------------------------
(* command_fetch                                                           *)

\* The staging directory must be new and the committed corpus readable.
Fetch(m) ==
    /\ Run(m)
    /\ staging[m] = Nothing
    /\ Readable(committed)
    /\ \E titles \in SUBSET Titles \ {{}} :
            draft' = [draft EXCEPT ![m] =
                [NoDraft EXCEPT !.titles = titles,
                                !.entries = EntriesOf(committed)]]
    /\ phase' = [phase EXCEPT ![m] = "site"]
    /\ UNCHANGED <<staging, repository, upstream, crashes, history>>

\* fetch_site: the rights must name the accepted license.  The option
\* --accept-site-rights-change, which lets them differ from the committed ones,
\* is the maintainer's to give.
FetchSite(m) ==
    /\ phase[m] = "site"
    /\ siteRights \in AcceptedRights
    /\ draft' = [draft EXCEPT ![m].rights = siteRights]
    /\ phase' = [phase EXCEPT ![m] = "pages"]
    /\ UNCHANGED <<staging, repository, upstream, crashes, commands, history>>

\* Mutant: the size and SHA-1 of the revision are not compared.
AnyContent(content, p, r) == TRUE

\* The content must have the size and SHA-1 the wiki reports of the revision.
MatchesRevision(content, p, r) == content = Upstream(p, r)

\* Mutant: the record names the parent revision.
ParentRecord(title, content, p, r, review) ==
    [id |-> title, page |-> p, revision |-> r - 1, content |-> content,
     review |-> review]

PageRecord(title, content, p, r, review) ==
    [id |-> title, page |-> p, revision |-> r, content |-> content,
     review |-> review]

Missing(m) == draft[m].titles \ {pg.id : pg \in draft[m].pages}

\* What a request may be answered with: a revision the page has or had, intact
\* or not.  An answer of another form is refused by _single_page.
Answers ==
    {a \in [page : Pages, revision : Revisions, sound : BOOLEAN] :
        a.revision <= wiki[a.page]}

\* fetch_page: the current revision, or an earlier one that is pinned, of the
\* page the title resolves to.
FetchPage(m) ==
    /\ phase[m] = "pages"
    /\ \E title \in Missing(m), content \in Answers :
        /\ content.page = PageOf[title]
        /\ MatchesRevision(content, content.page, content.revision)
        /\ draft' = [draft EXCEPT ![m].pages =
                @ \cup {PageRecord(title, content, content.page,
                                  content.revision, "pending")}]
    /\ UNCHANGED <<staging, phase, repository, upstream, crashes, commands,
                   history>>

\* _license_text: the committed text, or what the license URL serves.
LicenseTextFor(text) ==
    \/ text \in LicenseTexts
    \/ /\ Populated(committed)
       /\ committed[License] = [type |-> "license", text |-> text]
       /\ text = ManifestOf(committed).license.text

\* The manifest of a fetched corpus: everything is pending, and the version is
\* the next one of the ledger read at the start.
Assembled(m, text) ==
    ManifestOfView(Latest(draft[m].entries).version + 1,
        [kind |-> "authoritative", rights |-> draft[m].rights,
         license |-> [text |-> text, recorded |-> FALSE, review |-> "pending"],
         pages |-> draft[m].pages])

FinishFetch(m) ==
    /\ phase[m] = "pages"
    /\ Missing(m) = {}
    /\ \E text \in LicenseTexts :
        /\ LicenseTextFor(text)
        /\ pin # NoText => text = pin
        /\ LET new == Assembled(m, text) IN
           /\ ValidManifest(new, FALSE)
           /\ Write(m,
                [f \in FilesOf(new) |->
                    CASE f = Readme -> committed[Readme]
                      [] f = License -> [type |-> "license", text |-> text]
                      [] \E pg \in new.pages : f = PageFile(pg) ->
                            [type |-> "page",
                             text |-> (CHOOSE pg \in new.pages :
                                            f = PageFile(pg)).content]
                      [] OTHER -> CorpusFiles(Nothing, new,
                                              draft[m].entries)[f]])
    /\ phase' = [phase EXCEPT ![m] = "idle"]
    /\ draft' = [draft EXCEPT ![m] = NoDraft]
    /\ UNCHANGED <<repository, upstream, commands, history>>

\* A request fails, or is refused: nothing has been written.
GiveUp(m) ==
    /\ phase[m] \in {"site", "pages"}
    /\ phase' = [phase EXCEPT ![m] = "idle"]
    /\ draft' = [draft EXCEPT ![m] = NoDraft]
    /\ UNCHANGED <<staging, repository, upstream, crashes, commands, history>>

-----------------------------------------------------------------------------
(* command_review and command_release                                      *)

Rewritable(m, new) ==
    \A f \in FilesOf(new) \ {Manifest, Releases, Notice} : f \in DOMAIN staging[m]

\* Each page is declared free of exceptions, excepted, or left as it is.
Reviewed(pages, args) ==
    {PageRecord(pg.id, pg.content, pg.page, pg.revision,
        IF pg.id \in args.free THEN "reviewed_no_exceptions"
        ELSE IF pg.id \in args.excepted THEN "exception_found" ELSE pg.review) :
            pg \in pages}

\* What the options of a review make of a manifest.
AfterReview(old, args) ==
    ManifestOfView(old.version,
        [kind |-> old.kind, rights |-> old.rights,
         license |-> [text |-> old.license.text,
                      recorded |-> old.license.recorded \/ args.record,
                      review |-> IF args.approve THEN "approved"
                                 ELSE old.license.review],
         pages |-> Reviewed(old.pages, args)])

Review(m) ==
    /\ Run(m)
    /\ Readable(staging[m])
    /\ Populated(staging[m])
    /\ \E args \in ReviewArguments :
        LET new == AfterReview(ManifestOf(staging[m]), args)
        IN  /\ args.free \cap args.excepted = {}
            /\ args.free \cup args.excepted \subseteq {pg.id : pg \in new.pages}
            /\ ValidManifest(new, FALSE)
            /\ Rewritable(m, new)
            /\ Write(m, CorpusFiles(staging[m], new, EntriesOf(staging[m])))
            /\ reviewed' = reviewed \cup
                    {<<pg.id, pg.page, pg.revision>> :
                        pg \in {q \in new.pages : q.id \in args.free}}
            /\ approved' = IF args.approve
                           THEN approved \cup {<<new.rights, new.license.text>>}
                           ELSE approved
    /\ UNCHANGED <<phase, draft, repository, upstream, released, published>>

\* The staging must be reviewed, and differ from the latest release.
Releasable(new, entries) ==
    /\ ValidManifest(new, TRUE)
    /\ Identity(new) # Latest(entries).digest

\* command_release refuses a staging fetched from another ledger.
ReleaseCorpus(m) ==
    /\ Run(m)
    /\ Readable(staging[m])
    /\ Readable(committed)
    /\ EntriesOf(staging[m]) = EntriesOf(committed)
    /\ \E version \in 1..MaxVersion :
        LET entries == EntriesOf(committed)
            new == ManifestOfView(version, ManifestOf(staging[m]))
            appended == Append(entries,
                            Release(version, new, Latest(entries).digest))
        IN  /\ version > Latest(entries).version
            /\ Releasable(new, entries)
            /\ ValidReleases(appended)
            /\ Rewritable(m, new)
            /\ Write(m, CorpusFiles(staging[m], new, appended))
            /\ released' = released \cup {<<version, new.digest>>}
    /\ UNCHANGED <<phase, draft, repository, upstream, reviewed, approved,
                   published>>

\* The maintainer takes another new directory.
Abandon(m) ==
    /\ phase[m] = "idle"
    /\ staging[m] # Nothing
    /\ staging' = [staging EXCEPT ![m] = Nothing]
    /\ UNCHANGED <<phase, draft, repository, upstream, crashes, commands,
                   history>>

\* diff_corpora: what needs a maintainer's attention.
Alerts(old, new) ==
    LET pairs == {q \in old.pages \X new.pages : q[1].id = q[2].id}
    IN  {a \in {"page", "content", "rights", "license", "version"} :
            CASE a = "page" -> \E q \in pairs : q[1].page # q[2].page
              [] a = "content" ->
                    \E q \in pairs : /\ q[1].revision = q[2].revision
                                     /\ q[1].content # q[2].content
              [] a = "rights" -> old.rights \notin {NoRights, new.rights}
              [] a = "license" -> old.license.text \notin {NoText, new.license.text}
              [] a = "version" -> /\ Identity(old) # Identity(new)
                                  /\ old.version = new.version}

-----------------------------------------------------------------------------
(* Outside the tool.                                                       *)

\* A pull request with the files of a staging directory, which pins the
\* license text if none is pinned yet.
Publish(m) ==
    /\ phase[m] = "idle"
    /\ Holds(staging[m], Manifest, "manifest")
    /\ Holds(staging[m], Releases, "releases")
    /\ Populated(staging[m])
    /\ ReleasesExtend(EntriesOf(committed), EntriesOf(staging[m]))
    /\ pin' = IF pin = NoText THEN ManifestOf(staging[m]).license.text ELSE pin
    /\ Loads(staging[m], pin')
    /\ committed' = staging[m]
    /\ published' = published \cup
            {<<ManifestOf(staging[m]).version, ManifestOf(staging[m]).digest>>}
    /\ UNCHANGED <<tool, upstream, crashes, commands, reviewed, approved,
                   released>>

EditPage ==
    /\ \E p \in Pages :
            /\ wiki[p] + 1 \in Revisions
            /\ wiki' = [wiki EXCEPT ![p] = @ + 1]
    /\ UNCHANGED <<siteRights, repository, tool, crashes, commands, history>>

ChangeRights ==
    /\ siteRights' \in Rights \ {siteRights}
    /\ UNCHANGED <<wiki, repository, tool, crashes, commands, history>>

Next ==
    \/ \E m \in Maintainers :
        \/ Fetch(m) \/ FetchSite(m) \/ FetchPage(m) \/ FinishFetch(m)
        \/ GiveUp(m) \/ Review(m) \/ ReleaseCorpus(m)
        \/ Abandon(m) \/ Publish(m)
    \/ EditPage \/ ChangeRights

Spec == Init /\ [][Next]_vars

-----------------------------------------------------------------------------
(* Properties.                                                             *)

PageRecords == [id : Titles, page : Pages, revision : Revisions,
                content : [page : Pages, revision : Revisions, sound : BOOLEAN],
                review : {"pending", "reviewed_no_exceptions",
                          "exception_found"}]

Directories == {committed} \cup {staging[m] : m \in Maintainers}

\* The types of the tool's state.
TypeOK ==
    /\ wiki \in [Pages -> Revisions]
    /\ siteRights \in Rights
    /\ pin \in LicenseTexts \cup {NoText}
    /\ phase \in [Maintainers -> {"idle", "site", "pages"}]
    /\ \A m \in Maintainers :
        /\ draft[m].titles \subseteq Titles
        /\ draft[m].pages \subseteq PageRecords
        /\ draft[m].rights \in Rights \cup {NoRights}
    /\ crashes \in 0..MaxCrashes

\* Whatever directory the loader accepts, in the repository or half-way
\* through a command, holds the bytes of upstream revisions that somebody
\* reviewed as free of exceptions, under a license somebody approved
\* (vasp_wiki_corpus.py: "The corpus fails closed").
LoadedIsReviewed ==
    \A dir \in Directories, text \in LicenseTexts :
        Loads(dir, text) =>
            /\ <<ManifestOf(dir).rights, text>> \in approved
            /\ \A pg \in ManifestOf(dir).pages :
                /\ <<pg.id, pg.page, pg.revision>> \in reviewed
                /\ dir[PageFile(pg)] = [type |-> "page",
                                        text |-> Upstream(pg.page, pg.revision)]

\* A directory loads only as a release whose version and identity passed the
\* checks of command_release, whatever an interrupted command left behind.
LoadedIsReleased ==
    \A dir \in Directories, text \in LicenseTexts :
        Loads(dir, text) =>
            <<ManifestOf(dir).version, ManifestOf(dir).digest>> \in released

\* A version of the committed corpus names one identity and an identity one
\* version, even when two maintainers released from the same ledger.
VersionNamesOneCorpus ==
    \A a, b \in published : (a[1] = b[1]) <=> (a[2] = b[2])

\* The alert of diff_corpora that content changed under one revision does not
\* come from the tool itself: it would not stage a damaged answer.
NoRevisionRewritten ==
    \A dir \in Directories :
        Readable(dir) => "content" \notin Alerts(ManifestOf(committed),
                                                 ManifestOf(dir))
=============================================================================
