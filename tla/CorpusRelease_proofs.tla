------------------------ MODULE CorpusRelease_proofs ------------------------
(***************************************************************************)
(* Proofs about CorpusRelease, for any number of maintainers, titles,      *)
(* revisions, commands and interrupted writes.                             *)
(***************************************************************************)
EXTENDS CorpusRelease, SequenceTheorems, TLAPS

\* What every manifest says, staged or committed: its pages are the bytes of
\* revisions of the pages their titles resolve to, and what it calls reviewed
\* somebody has reviewed.
Honest(m, rev, app) ==
    /\ m.license.review = "approved" => <<m.rights, m.license.text>> \in app
    /\ \A pg \in m.pages :
        /\ pg.page = PageOf[pg.id]
        /\ pg.content = Upstream(pg.page, pg.revision)
        /\ pg.review = "reviewed_no_exceptions" =>
                <<pg.id, pg.page, pg.revision>> \in rev

HonestDirectory(dir, rev, app) ==
    Holds(dir, Manifest, "manifest") => Honest(ManifestOf(dir), rev, app)

HonestDraft(d) ==
    \A pg \in d.pages : /\ pg.page = PageOf[pg.id]
                        /\ pg.content = Upstream(pg.page, pg.revision)
                        /\ pg.review = "pending"

\* The inductive invariant behind LoadedIsReviewed and NoRevisionRewritten.
HonestInv ==
    /\ DOMAIN staging = Maintainers
    /\ DOMAIN draft = Maintainers
    /\ Holds(committed, Manifest, "manifest")
    /\ HonestDirectory(committed, reviewed, approved)
    /\ \A m \in Maintainers : HonestDirectory(staging[m], reviewed, approved)
    /\ \A m \in Maintainers : HonestDraft(draft[m])

-----------------------------------------------------------------------------
LEMMA SeqMonotone ==
    ASSUME NEW S, NEW T, S \subseteq T, NEW s \in Seq(S) PROVE s \in Seq(T)
  OBVIOUS

\* The paths of the metadata are different paths.
LEMMA PathsDiffer ==
    /\ Manifest # Sums /\ Manifest # Releases /\ Manifest # Notice
    /\ Manifest # Readme /\ Manifest # License
    /\ Releases # Sums /\ Releases # Notice /\ Releases # Readme
    /\ Releases # License
  BY DEF Manifest, Sums, Releases, Notice, Readme, License

\* Whatever a write of new over old leaves, a file that is not cut short is the
\* old or the new.
LEMMA LeftFile ==
    ASSUME NEW old, NEW new, NEW left \in LeftBehind(old, new),
           NEW file \in DOMAIN left, left[file].type # "cut"
    PROVE  \/ file \in DOMAIN old /\ left[file] = old[file]
           \/ file \in DOMAIN new /\ left[file] = new[file]
<1>1. PICK point \in Points(new) :
        LET f == point[1]
            done == point[2]
            paths == (DOMAIN old \cap DOMAIN new) \cup done
            partly == [g \in paths |-> IF g \in done THEN new[g] ELSE old[g]]
        IN  left \in {partly, Restrict(partly, paths \ {f}),
                [g \in paths \cup {f} |-> IF g = f THEN Cut ELSE partly[g]]}
  BY DEF LeftBehind
<1> DEFINE f == point[1]
           done == point[2]
           paths == (DOMAIN old \cap DOMAIN new) \cup done
           partly == [g \in paths |-> IF g \in done THEN new[g] ELSE old[g]]
<1>2. done \subseteq DOMAIN new
  BY DEF Points
<1>3. ASSUME file \in paths
      PROVE  \/ file \in DOMAIN old /\ partly[file] = old[file]
             \/ file \in DOMAIN new /\ partly[file] = new[file]
  BY <1>2, <1>3
<1>4. CASE left = partly
  BY <1>3, <1>4
<1>5. CASE left = Restrict(partly, paths \ {f})
  BY <1>3, <1>5 DEF Restrict
<1>6. CASE left = [g \in paths \cup {f} |-> IF g = f THEN Cut ELSE partly[g]]
  <2>1. file # f
    BY <1>6 DEF Cut
  <2> QED BY <1>3, <1>6, <2>1
<1> QED BY <1>1, <1>4, <1>5, <1>6

\* What was reviewed stays reviewed, so what is honest stays honest.
LEMMA HonestKept ==
    ASSUME NEW dir, NEW rev, NEW app, NEW rev2, NEW app2,
           rev \subseteq rev2, app \subseteq app2,
           HonestDirectory(dir, rev, app)
    PROVE  HonestDirectory(dir, rev2, app2)
  BY DEF HonestDirectory, Honest

\* A command that writes an honest manifest leaves an honest directory.
LEMMA WriteHonest ==
    ASSUME NEW m \in Maintainers, NEW contents, NEW new, NEW rev, NEW app,
           DOMAIN staging = Maintainers, Write(m, contents),
           Manifest \in DOMAIN contents,
           contents[Manifest] = [type |-> "manifest", manifest |-> new],
           Honest(new, rev, app),
           \A n \in Maintainers : HonestDirectory(staging[n], rev, app)
    PROVE  /\ DOMAIN staging' = Maintainers
           /\ \A n \in Maintainers : HonestDirectory(staging'[n], rev, app)
<1>1. /\ Manifest \in DOMAIN Seal(contents)
      /\ Seal(contents)[Manifest] = [type |-> "manifest", manifest |-> new]
  BY PathsDiffer DEF Seal
<1>2. CASE staging' = [staging EXCEPT ![m] = Seal(contents)]
  BY <1>1, <1>2 DEF HonestDirectory, ManifestOf
<1>3. ASSUME NEW left \in LeftBehind(staging[m], Seal(contents)),
             staging' = [staging EXCEPT ![m] = left]
      PROVE  /\ DOMAIN staging' = Maintainers
             /\ \A n \in Maintainers : HonestDirectory(staging'[n], rev, app)
  <2>1. HonestDirectory(left, rev, app)
    <3>1. CASE ~Holds(left, Manifest, "manifest")
      BY <3>1 DEF HonestDirectory
    <3>2. CASE Holds(left, Manifest, "manifest")
      <4>1. \/ Manifest \in DOMAIN staging[m] /\ left[Manifest] = staging[m][Manifest]
            \/ left[Manifest] = Seal(contents)[Manifest]
        BY <3>2, LeftFile DEF Holds
      <4> QED BY <1>1, <3>2, <4>1 DEF HonestDirectory, ManifestOf, Holds
    <3> QED BY <3>1, <3>2
  <2> QED BY <1>3, <2>1
<1> QED BY <1>2, <1>3 DEF Write

\* The files rendered from a manifest hold it.
LEMMA ManifestWritten ==
    ASSUME NEW dir, NEW m, NEW entries
    PROVE  /\ Manifest \in DOMAIN CorpusFiles(dir, m, entries)
           /\ CorpusFiles(dir, m, entries)[Manifest]
                = [type |-> "manifest", manifest |-> m]
  BY PathsDiffer DEF CorpusFiles, FilesOf

\* A command that writes the files of an honest manifest leaves honest
\* directories.
LEMMA CommandHonest ==
    ASSUME NEW m \in Maintainers, NEW dir, NEW new, NEW entries, NEW rev, NEW app,
           DOMAIN staging = Maintainers,
           Write(m, CorpusFiles(dir, new, entries)),
           Honest(new, rev, app),
           \A n \in Maintainers : HonestDirectory(staging[n], rev, app)
    PROVE  /\ DOMAIN staging' = Maintainers
           /\ \A n \in Maintainers : HonestDirectory(staging'[n], rev, app)
<1> DEFINE contents == CorpusFiles(dir, new, entries)
<1>1. /\ Manifest \in DOMAIN contents
      /\ contents[Manifest] = [type |-> "manifest", manifest |-> new]
      /\ Write(m, contents)
  BY ManifestWritten
<1> HIDE DEF contents
<1> QED BY <1>1, WriteHonest

-----------------------------------------------------------------------------
\* The package ships an unpopulated corpus, and no draft has a page yet.
LEMMA InitHonest == Init => HonestInv
<1> SUFFICES ASSUME Init PROVE HonestInv
  OBVIOUS
<1>1. HonestDirectory(committed, reviewed, approved)
  <2>1. committed[Manifest].manifest = Unpopulated
    BY PathsDiffer DEF Init, UnpopulatedCorpus, Seal
  <2> QED BY <2>1 DEF HonestDirectory, Honest, ManifestOf, Unpopulated,
                       ManifestOfView
<1>2. \A m \in Maintainers : HonestDirectory(staging[m], reviewed, approved)
  BY DEF Init, Nothing, HonestDirectory, Holds
<1>3. Holds(committed, Manifest, "manifest")
  BY PathsDiffer DEF Init, UnpopulatedCorpus, Seal, Holds
<1> QED BY <1>1, <1>2, <1>3 DEF Init, HonestInv, HonestDraft, NoDraft

\* A step keeps HonestInv.
LEMMA NextHonest == HonestInv /\ [Next]_vars => HonestInv'
<1> SUFFICES ASSUME HonestInv, [Next]_vars PROVE HonestInv'
  OBVIOUS
<1> USE DEF HonestInv
<1>1. ASSUME NEW m \in Maintainers, Fetch(m) PROVE HonestInv'
  BY <1>1 DEF Fetch, NoDraft, HonestDraft, repository, upstream, history
<1>2. ASSUME NEW m \in Maintainers, FetchSite(m) PROVE HonestInv'
  BY <1>2 DEF FetchSite, HonestDraft, repository, upstream, history
<1>3. ASSUME NEW m \in Maintainers, FetchPage(m) PROVE HonestInv'
  <2>1. PICK title \in Missing(m), content \in Answers :
            /\ content.page = PageOf[title]
            /\ content = Upstream(content.page, content.revision)
            /\ draft' = [draft EXCEPT ![m].pages = @ \cup
                    {PageRecord(title, content, content.page,
                                content.revision, "pending")}]
    BY <1>3 DEF FetchPage, MatchesRevision
  <2>2. HonestDraft(draft'[m])
    BY <2>1 DEF HonestDraft, PageRecord
  <2> QED BY <1>3, <2>1, <2>2 DEF FetchPage, HonestDraft, repository, upstream, history
<1>4. ASSUME NEW m \in Maintainers, FinishFetch(m) PROVE HonestInv'
  <2>1. PICK text, contents :
            /\ text \in LicenseTexts
            /\ Manifest \in DOMAIN contents
            /\ contents[Manifest] = [type |-> "manifest",
                                     manifest |-> Assembled(m, text)]
            /\ Write(m, contents)
    <3>1. PICK text \in LicenseTexts :
            LET new == Assembled(m, text) IN
            Write(m, [f \in FilesOf(new) |->
                    CASE f = Readme -> committed[Readme]
                      [] f = License -> [type |-> "license", text |-> text]
                      [] \E pg \in new.pages : f = PageFile(pg) ->
                            [type |-> "page",
                             text |-> (CHOOSE pg \in new.pages :
                                            f = PageFile(pg)).content]
                      [] OTHER -> CorpusFiles(Nothing, new,
                                              draft[m].entries)[f]])
      BY <1>4 DEF FinishFetch
    <3> DEFINE new == Assembled(m, text)
               contents == [f \in FilesOf(new) |->
                    CASE f = Readme -> committed[Readme]
                      [] f = License -> [type |-> "license", text |-> text]
                      [] \E pg \in new.pages : f = PageFile(pg) ->
                            [type |-> "page",
                             text |-> (CHOOSE pg \in new.pages :
                                            f = PageFile(pg)).content]
                      [] OTHER -> CorpusFiles(Nothing, new,
                                              draft[m].entries)[f]]
    <3>2. \A pg \in new.pages : Manifest # PageFile(pg)
      BY DEF Manifest, PageFile
    <3>3. /\ Manifest \in FilesOf(new)
          /\ CorpusFiles(Nothing, new, draft[m].entries)[Manifest]
                = [type |-> "manifest", manifest |-> new]
      BY ManifestWritten DEF FilesOf
    <3>4. contents[Manifest] = [type |-> "manifest", manifest |-> new]
      BY <3>2, <3>3, PathsDiffer
    <3> QED BY <3>1, <3>3, <3>4
  <2>2. Honest(Assembled(m, text), reviewed, approved)
    BY DEF Honest, HonestDraft, Assembled, ManifestOfView
  <2>3. /\ DOMAIN staging' = Maintainers
        /\ \A n \in Maintainers : HonestDirectory(staging'[n], reviewed, approved)
    BY <2>1, <2>2, WriteHonest
  <2>4. \A n \in Maintainers : HonestDraft(draft'[n])
    BY <1>4 DEF FinishFetch, HonestDraft, NoDraft
  <2> QED BY <1>4, <2>3, <2>4 DEF FinishFetch, repository, upstream, history
<1>5. ASSUME NEW m \in Maintainers, GiveUp(m) PROVE HonestInv'
  BY <1>5 DEF GiveUp, HonestDraft, NoDraft, repository, upstream, history
<1>6. ASSUME NEW m \in Maintainers, Review(m) PROVE HonestInv'
  <2> DEFINE old == ManifestOf(staging[m])
             new(args) == AfterReview(old, args)
  <2>1. PICK args \in ReviewArguments :
            /\ Write(m, CorpusFiles(staging[m], new(args), EntriesOf(staging[m])))
            /\ reviewed' = reviewed \cup {<<pg.id, pg.page, pg.revision>> :
                                pg \in {q \in new(args).pages : q.id \in args.free}}
            /\ approved' = IF args.approve
                           THEN approved \cup
                                    {<<new(args).rights, new(args).license.text>>}
                           ELSE approved
    BY <1>6 DEF Review
  <2>2. /\ reviewed \subseteq reviewed' /\ approved \subseteq approved'
        /\ \A n \in Maintainers : HonestDirectory(staging[n], reviewed', approved')
        /\ HonestDirectory(committed, reviewed', approved')
    BY <2>1, HonestKept
  <2>3. Honest(old, reviewed, approved)
    BY <1>6 DEF Review, Readable, HonestDirectory
  <2>4. Honest(new(args), reviewed', approved')
    <3>1. new(args).license.review = "approved" =>
                <<new(args).rights, new(args).license.text>> \in approved'
      BY <2>1, <2>3 DEF Honest, AfterReview, ManifestOfView
    <3>2. ASSUME NEW pg \in new(args).pages
          PROVE  /\ pg.page = PageOf[pg.id]
                 /\ pg.content = Upstream(pg.page, pg.revision)
                 /\ pg.review = "reviewed_no_exceptions" =>
                        <<pg.id, pg.page, pg.revision>> \in reviewed'
      <4>1. PICK before \in old.pages :
                pg = PageRecord(before.id, before.content, before.page,
                        before.revision,
                        IF before.id \in args.free THEN "reviewed_no_exceptions"
                        ELSE IF before.id \in args.excepted
                             THEN "exception_found" ELSE before.review)
        BY DEF AfterReview, ManifestOfView, Reviewed
      <4>2. pg.page = PageOf[pg.id] /\ pg.content = Upstream(pg.page, pg.revision)
        BY <2>3, <4>1 DEF Honest, PageRecord
      <4>3. CASE pg.id \in args.free
        BY <2>1, <4>2, <4>3
      <4>4. CASE pg.id \notin args.free
        BY <2>2, <2>3, <4>1, <4>2, <4>4 DEF Honest, PageRecord
      <4> QED BY <4>3, <4>4
    <3> QED BY <3>1, <3>2 DEF Honest
  <2>5. /\ DOMAIN staging' = Maintainers
        /\ \A n \in Maintainers : HonestDirectory(staging'[n], reviewed', approved')
    BY <2>1, <2>2, <2>4, CommandHonest
  <2> QED BY <1>6, <2>2, <2>5 DEF Review, HonestDraft, repository, upstream
<1>7. ASSUME NEW m \in Maintainers, ReleaseCorpus(m) PROVE HonestInv'
  <2> DEFINE old == ManifestOf(staging[m])
  <2>1. PICK version, entries :
            Write(m, CorpusFiles(staging[m], ManifestOfView(version, old), entries))
    BY <1>7 DEF ReleaseCorpus
  <2>2. Honest(old, reviewed, approved)
    BY <1>7 DEF ReleaseCorpus, Readable, HonestDirectory
  <2>3. Honest(ManifestOfView(version, old), reviewed, approved)
    BY <2>2 DEF Honest, ManifestOfView
  <2>4. /\ DOMAIN staging' = Maintainers
        /\ \A n \in Maintainers : HonestDirectory(staging'[n], reviewed, approved)
    BY <2>1, <2>3, CommandHonest
  <2> QED BY <1>7, <2>4 DEF ReleaseCorpus, HonestDraft, repository, upstream
<1>8. ASSUME NEW m \in Maintainers, Abandon(m) PROVE HonestInv'
  BY <1>8 DEF Abandon, HonestDirectory, Holds, Nothing, HonestDraft, repository,
              upstream, history
<1>9. ASSUME NEW m \in Maintainers, Publish(m) PROVE HonestInv'
  BY <1>9 DEF Publish, HonestDraft, tool, upstream
<1>10. CASE EditPage
  BY <1>10 DEF EditPage, HonestDraft, repository, tool, history
<1>11. CASE ChangeRights
  BY <1>11 DEF ChangeRights, HonestDraft, repository, tool, history
<1>12. CASE UNCHANGED vars
  BY <1>12 DEF vars, HonestDraft, repository, tool, history
<1> QED BY <1>1, <1>2, <1>3, <1>4, <1>5, <1>6, <1>7, <1>8, <1>9, <1>10, <1>11,
           <1>12 DEF Next

\* What an honest directory holds when the loader accepts it.
LEMMA HonestLoads ==
    ASSUME NEW dir, NEW text, NEW rev, NEW app,
           HonestDirectory(dir, rev, app), Loads(dir, text)
    PROVE  /\ <<ManifestOf(dir).rights, text>> \in app
           /\ \A pg \in ManifestOf(dir).pages :
                /\ <<pg.id, pg.page, pg.revision>> \in rev
                /\ dir[PageFile(pg)] = [type |-> "page",
                                        text |-> Upstream(pg.page, pg.revision)]
<1> DEFINE m == dir[Manifest].manifest
<1>1. /\ ValidManifest(m, TRUE) /\ m.kind = "authoritative"
      /\ m.license.text = text
      /\ \A pg \in m.pages : Verified(dir[PageFile(pg)], pg)
      /\ Honest(m, rev, app)
  BY DEF Loads, HonestDirectory, ManifestOf
<1>2. m.license.review = "approved"
  BY <1>1 DEF ValidManifest, ValidLicense
<1>3. \A pg \in m.pages : pg.review = "reviewed_no_exceptions"
  BY <1>1 DEF ValidManifest, ValidPage
<1> QED BY <1>1, <1>2, <1>3 DEF Honest, Verified, ManifestOf

\* A directory the loader accepts holds the bytes of reviewed upstream
\* revisions under an approved license, wherever a command was interrupted
\* (load_vasp_wiki_corpus, command_review, command_release).
THEOREM LoadedIsReviewedHolds == Spec => []LoadedIsReviewed
<1>1. HonestInv => LoadedIsReviewed
  BY HonestLoads DEF HonestInv, LoadedIsReviewed, Directories
<1> QED BY InitHonest, NextHonest, <1>1, PTL DEF Spec

\* Between the committed corpus and any corpus that can be read, the content
\* of a revision never differs (fetch_page, diff_corpora).
THEOREM NoRevisionRewrittenHolds == Spec => []NoRevisionRewritten
<1>1. HonestInv => NoRevisionRewritten
  <2> SUFFICES ASSUME HonestInv, NEW dir \in Directories, Readable(dir),
                      "content" \in Alerts(ManifestOf(committed), ManifestOf(dir))
               PROVE  FALSE
    BY DEF NoRevisionRewritten
  <2> DEFINE old == ManifestOf(committed)
             new == ManifestOf(dir)
  <2>1. Honest(old, reviewed, approved) /\ Honest(new, reviewed, approved)
    BY DEF HonestInv, HonestDirectory, Directories, Readable
  <2>2. PICK a \in old.pages, b \in new.pages :
            /\ a.id = b.id
            /\ a.revision = b.revision
            /\ a.content # b.content
    BY DEF Alerts
  <2> QED BY <2>1, <2>2 DEF Honest
<1> QED BY InitHonest, NextHonest, <1>1, PTL DEF Spec

-----------------------------------------------------------------------------
(* The release ledger.                                                     *)

IsLedger(entries) == \E S : entries \in Seq(S)

IsDraft(d) ==
    d = [titles |-> d.titles, entries |-> d.entries, rights |-> d.rights,
         pages |-> d.pages]

LedgerDirectory(dir) ==
    Holds(dir, Releases, "releases") => IsLedger(EntriesOf(dir))

\* The inductive invariant behind VersionNamesOneCorpus: whatever was
\* published is an entry of the committed ledger, and that ledger is valid.
LedgerInv ==
    /\ DOMAIN staging = Maintainers
    /\ DOMAIN draft = Maintainers
    /\ Holds(committed, Releases, "releases")
    /\ LedgerDirectory(committed)
    /\ ValidReleases(EntriesOf(committed))
    /\ \A m \in Maintainers : LedgerDirectory(staging[m])
    /\ \A m \in Maintainers : IsDraft(draft[m]) /\ IsLedger(draft[m].entries)
    /\ \A a \in published : \E i \in DOMAIN EntriesOf(committed) :
            /\ a[1] = EntriesOf(committed)[i].version
            /\ a[2] = EntriesOf(committed)[i].digest

LEMMA LedgerWritten ==
    ASSUME NEW dir, NEW m, NEW entries
    PROVE  /\ Releases \in DOMAIN CorpusFiles(dir, m, entries)
           /\ CorpusFiles(dir, m, entries)[Releases]
                = [type |-> "releases", entries |-> entries]
  BY PathsDiffer DEF CorpusFiles, FilesOf

\* The ledger of a directory, and what a write may make of it.
Entries(dir) == IF Holds(dir, Releases, "releases") THEN {EntriesOf(dir)} ELSE {}

\* A command that writes a ledger leaves that ledger, the one before or none.
LEMMA WriteLedger ==
    ASSUME NEW m \in Maintainers, NEW contents, NEW entries,
           DOMAIN staging = Maintainers, Write(m, contents),
           Releases \in DOMAIN contents,
           contents[Releases] = [type |-> "releases", entries |-> entries]
    PROVE  /\ DOMAIN staging' = Maintainers
           /\ \A n \in Maintainers :
                Entries(staging'[n]) \subseteq Entries(staging[n]) \cup {entries}
<1>1. /\ Releases \in DOMAIN Seal(contents)
      /\ Seal(contents)[Releases] = [type |-> "releases", entries |-> entries]
  BY PathsDiffer DEF Seal
<1>2. CASE staging' = [staging EXCEPT ![m] = Seal(contents)]
  BY <1>1, <1>2 DEF Entries, EntriesOf
<1>3. ASSUME NEW left \in LeftBehind(staging[m], Seal(contents)),
             staging' = [staging EXCEPT ![m] = left]
      PROVE  /\ DOMAIN staging' = Maintainers
             /\ \A n \in Maintainers :
                  Entries(staging'[n]) \subseteq Entries(staging[n]) \cup {entries}
  <2>1. Entries(left) \subseteq Entries(staging[m]) \cup {entries}
    <3>1. CASE ~Holds(left, Releases, "releases")
      BY <3>1 DEF Entries
    <3>2. CASE Holds(left, Releases, "releases")
      <4>1. \/ Releases \in DOMAIN staging[m] /\ left[Releases] = staging[m][Releases]
            \/ left[Releases] = Seal(contents)[Releases]
        BY <3>2, LeftFile DEF Holds
      <4> QED BY <1>1, <3>2, <4>1 DEF Entries, EntriesOf, Holds
    <3> QED BY <3>1, <3>2
  <2> QED BY <1>3, <2>1
<1> QED BY <1>2, <1>3 DEF Write

LEMMA CommandLedger ==
    ASSUME NEW m \in Maintainers, NEW dir, NEW new, NEW entries,
           DOMAIN staging = Maintainers,
           Write(m, CorpusFiles(dir, new, entries))
    PROVE  /\ DOMAIN staging' = Maintainers
           /\ \A n \in Maintainers :
                Entries(staging'[n]) \subseteq Entries(staging[n]) \cup {entries}
<1> DEFINE contents == CorpusFiles(dir, new, entries)
<1>1. /\ Releases \in DOMAIN contents
      /\ contents[Releases] = [type |-> "releases", entries |-> entries]
      /\ Write(m, contents)
  BY LedgerWritten
<1> HIDE DEF contents
<1> QED BY <1>1, WriteLedger

\* command_fetch writes the ledger it read at the start.
LEMMA FetchLedger ==
    ASSUME NEW m \in Maintainers, DOMAIN staging = Maintainers, FinishFetch(m)
    PROVE  /\ DOMAIN staging' = Maintainers
           /\ \A n \in Maintainers :
                Entries(staging'[n])
                    \subseteq Entries(staging[n]) \cup {draft[m].entries}
<1>1. PICK text \in LicenseTexts :
          LET new == Assembled(m, text) IN
          Write(m, [f \in FilesOf(new) |->
                  CASE f = Readme -> committed[Readme]
                    [] f = License -> [type |-> "license", text |-> text]
                    [] \E pg \in new.pages : f = PageFile(pg) ->
                          [type |-> "page",
                           text |-> (CHOOSE pg \in new.pages :
                                          f = PageFile(pg)).content]
                    [] OTHER -> CorpusFiles(Nothing, new,
                                            draft[m].entries)[f]])
  BY DEF FinishFetch
<1> DEFINE new == Assembled(m, text)
           contents == [f \in FilesOf(new) |->
                  CASE f = Readme -> committed[Readme]
                    [] f = License -> [type |-> "license", text |-> text]
                    [] \E pg \in new.pages : f = PageFile(pg) ->
                          [type |-> "page",
                           text |-> (CHOOSE pg \in new.pages :
                                          f = PageFile(pg)).content]
                    [] OTHER -> CorpusFiles(Nothing, new,
                                            draft[m].entries)[f]]
<1>2. \A pg \in new.pages : Releases # PageFile(pg)
  BY DEF Releases, PageFile
<1>3. /\ Releases \in FilesOf(new)
      /\ Releases # Readme /\ Releases # License
  BY DEF FilesOf, Releases, Readme, License
<1>4. CorpusFiles(Nothing, new, draft[m].entries)[Releases]
          = [type |-> "releases", entries |-> draft[m].entries]
  BY LedgerWritten
<1>5. contents[Releases] = [type |-> "releases", entries |-> draft[m].entries]
  BY <1>2, <1>3, <1>4
<1>6. Releases \in DOMAIN contents /\ Write(m, contents)
  BY <1>1, <1>3
<1> HIDE DEF contents
<1> QED BY <1>5, <1>6, WriteLedger
LEMMA InitLedger == Init => LedgerInv
<1> SUFFICES ASSUME Init PROVE LedgerInv
  OBVIOUS
<1>1. /\ Holds(committed, Releases, "releases")
      /\ EntriesOf(committed) = <<UnpopulatedAnchor>>
  BY PathsDiffer DEF Init, UnpopulatedCorpus, Seal, Holds, EntriesOf
<1>2. IsLedger(<<UnpopulatedAnchor>>)
  <2>1. <<UnpopulatedAnchor>> \in Seq({UnpopulatedAnchor})
    OBVIOUS
  <2> QED BY <2>1 DEF IsLedger
<1>3. ValidReleases(<<UnpopulatedAnchor>>)
  <2>1. UnpopulatedAnchor.version \in Nat
    BY DEF UnpopulatedAnchor, Release
  <2> QED BY <2>1 DEF ValidReleases
<1>4. IsLedger(<<>>)
  <2>1. <<>> \in Seq({})
    OBVIOUS
  <2> QED BY <2>1 DEF IsLedger
<1>5. /\ DOMAIN staging = Maintainers
      /\ DOMAIN draft = Maintainers
      /\ \A m \in Maintainers : LedgerDirectory(staging[m])
      /\ \A m \in Maintainers : IsDraft(draft[m]) /\ IsLedger(draft[m].entries)
  BY <1>4 DEF Init, Nothing, NoDraft, IsDraft, LedgerDirectory, Holds
<1> QED BY <1>1, <1>2, <1>3, <1>5 DEF Init, LedgerInv, LedgerDirectory

LEMMA AppendLedger ==
    ASSUME NEW entries, IsLedger(entries), NEW e
    PROVE  IsLedger(Append(entries, e))
<1>1. PICK S : entries \in Seq(S)
  BY DEF IsLedger
<1>2. entries \in Seq(S \cup {e}) /\ e \in S \cup {e}
  BY <1>1, SeqMonotone
<1>3. Append(entries, e) \in Seq(S \cup {e})
  BY <1>2
<1> QED BY <1>3 DEF IsLedger

\* A ledger that is not empty has a latest entry.
LEMMA LatestIsThere ==
    ASSUME NEW entries, IsLedger(entries), entries # <<>>
    PROVE  Len(entries) \in DOMAIN entries
<1>1. PICK S : entries \in Seq(S)
  BY DEF IsLedger
<1> QED BY <1>1, LenProperties

\* A step keeps LedgerInv.
LEMMA NextLedger == LedgerInv /\ [Next]_vars => LedgerInv'
<1> SUFFICES ASSUME LedgerInv, [Next]_vars PROVE LedgerInv'
  OBVIOUS
<1> USE DEF LedgerInv
<1>0. IsLedger(<<>>)
  <2>1. <<>> \in Seq({})
    OBVIOUS
  <2> QED BY <2>1 DEF IsLedger
<1>1. ASSUME NEW m \in Maintainers, Fetch(m) PROVE LedgerInv'
  <2>1. IsLedger(EntriesOf(committed))
    BY DEF LedgerDirectory
  <2>2. \A n \in Maintainers : IsDraft(draft'[n]) /\ IsLedger(draft'[n].entries)
    BY <1>1, <2>1 DEF Fetch, NoDraft, IsDraft
  <2> QED BY <1>1, <2>2 DEF Fetch, repository, upstream, history
<1>2. ASSUME NEW m \in Maintainers, FetchSite(m) \/ FetchPage(m)
      PROVE  LedgerInv'
  <2>1. draft[m] = [titles |-> draft[m].titles, entries |-> draft[m].entries,
                    rights |-> draft[m].rights, pages |-> draft[m].pages]
    BY DEF IsDraft
  <2>2. \/ \E rights : draft' = [draft EXCEPT ![m].rights = rights]
        \/ \E pages : draft' = [draft EXCEPT ![m].pages = pages]
    BY <1>2 DEF FetchSite, FetchPage
  <2>3. /\ draft'[m] = [titles |-> draft[m].titles, entries |-> draft[m].entries,
                        rights |-> draft'[m].rights, pages |-> draft'[m].pages]
        /\ DOMAIN draft' = Maintainers
        /\ \A n \in Maintainers \ {m} : draft'[n] = draft[n]
    BY <2>1, <2>2
  <2>4. \A n \in Maintainers : IsDraft(draft'[n]) /\ IsLedger(draft'[n].entries)
    BY <2>3 DEF IsDraft
  <2> QED BY <1>2, <2>3, <2>4 DEF FetchSite, FetchPage, repository, upstream, history
<1>3. ASSUME NEW m \in Maintainers, FinishFetch(m) PROVE LedgerInv'
  <2>1. /\ DOMAIN staging' = Maintainers
        /\ \A n \in Maintainers : LedgerDirectory(staging'[n])
    BY <1>3, FetchLedger DEF LedgerDirectory, Entries
  <2>2. \A n \in Maintainers : IsDraft(draft'[n]) /\ IsLedger(draft'[n].entries)
    BY <1>0, <1>3 DEF FinishFetch, NoDraft, IsDraft
  <2> QED BY <1>3, <2>1, <2>2 DEF FinishFetch, repository, upstream, history
<1>4. ASSUME NEW m \in Maintainers, GiveUp(m) PROVE LedgerInv'
  BY <1>0, <1>4 DEF GiveUp, NoDraft, IsDraft, repository, upstream, history
<1>5. ASSUME NEW m \in Maintainers, Review(m) PROVE LedgerInv'
  <2>1. PICK new : Write(m, CorpusFiles(staging[m], new, EntriesOf(staging[m])))
    BY <1>5 DEF Review
  <2>2. IsLedger(EntriesOf(staging[m]))
    BY <1>5 DEF Review, Readable, LedgerDirectory
  <2>3. /\ DOMAIN staging' = Maintainers
        /\ \A n \in Maintainers : LedgerDirectory(staging'[n])
    BY <2>1, <2>2, CommandLedger DEF LedgerDirectory, Entries
  <2> QED BY <1>5, <2>3 DEF Review, repository, upstream
<1>6. ASSUME NEW m \in Maintainers, ReleaseCorpus(m) PROVE LedgerInv'
  <2>1. PICK new, e :
            Write(m, CorpusFiles(staging[m], new, Append(EntriesOf(committed), e)))
    BY <1>6 DEF ReleaseCorpus
  <2>2. IsLedger(Append(EntriesOf(committed), e))
    BY AppendLedger DEF LedgerDirectory
  <2>3. /\ DOMAIN staging' = Maintainers
        /\ \A n \in Maintainers : LedgerDirectory(staging'[n])
    BY <2>1, <2>2, CommandLedger DEF LedgerDirectory, Entries
  <2> QED BY <1>6, <2>3 DEF ReleaseCorpus, repository, upstream
<1>7. ASSUME NEW m \in Maintainers, Abandon(m) PROVE LedgerInv'
  BY <1>7 DEF Abandon, LedgerDirectory, Holds, Nothing, repository, upstream, history
<1>8. ASSUME NEW m \in Maintainers, Publish(m) PROVE LedgerInv'
  <2> DEFINE base == EntriesOf(committed)
             current == EntriesOf(staging[m])
             manifest == ManifestOf(staging[m])
  <2>1. /\ committed' = staging[m]
        /\ Holds(staging[m], Releases, "releases")
        /\ ReleasesExtend(base, current)
        /\ LatestRelease(manifest, current)
        /\ published' = published \cup {<<manifest.version, manifest.digest>>}
        /\ UNCHANGED <<staging, draft>>
    BY <1>8 DEF Publish, Loads, ManifestOf, EntriesOf, tool
  <2>2. IsLedger(current) /\ ValidReleases(current)
    BY <2>1 DEF LedgerDirectory, LatestRelease
  <2>3. /\ Len(current) \in DOMAIN current
        /\ manifest.version = current[Len(current)].version
        /\ manifest.digest = current[Len(current)].digest
    BY <2>1, <2>2, LatestIsThere DEF LatestRelease, ValidReleases
  <2>4. ASSUME NEW a \in published'
        PROVE  \E i \in DOMAIN current : /\ a[1] = current[i].version
                                         /\ a[2] = current[i].digest
    <3>1. CASE a \in published
      BY <2>1, <3>1 DEF ReleasesExtend
    <3>2. CASE a = <<manifest.version, manifest.digest>>
      BY <2>3, <3>2
    <3> QED BY <2>1, <2>4, <3>1, <3>2
  <2>5. EntriesOf(committed)' = current
    BY <2>1 DEF EntriesOf
  <2> HIDE DEF current
  <2> QED BY <2>1, <2>2, <2>4, <2>5 DEF LedgerDirectory, Holds
<1>9. CASE EditPage
  BY <1>9 DEF EditPage, repository, tool, history
<1>10. CASE ChangeRights
  BY <1>10 DEF ChangeRights, repository, tool, history
<1>11. CASE UNCHANGED vars
  BY <1>11 DEF vars, repository, tool, history
<1> QED BY <1>1, <1>2, <1>3, <1>4, <1>5, <1>6, <1>7, <1>8, <1>9, <1>10, <1>11
        DEF Next

\* A version that was ever committed names one identity and an identity one
\* version, whoever released it (command_release, validate_releases and the
\* append-only test of the ledger).
THEOREM VersionNamesOneCorpusHolds == Spec => []VersionNamesOneCorpus
<1>1. LedgerInv => VersionNamesOneCorpus
  <2> SUFFICES ASSUME LedgerInv, NEW a \in published, NEW b \in published
               PROVE  (a[1] = b[1]) <=> (a[2] = b[2])
    BY DEF VersionNamesOneCorpus
  <2> DEFINE entries == EntriesOf(committed)
  <2>1. PICK i \in DOMAIN entries : /\ a[1] = entries[i].version
                                    /\ a[2] = entries[i].digest
    BY DEF LedgerInv
  <2>2. PICK j \in DOMAIN entries : /\ b[1] = entries[j].version
                                    /\ b[2] = entries[j].digest
    BY DEF LedgerInv
  <2>3. i \in Int /\ j \in Int
    <3>1. PICK S : entries \in Seq(S)
      BY DEF LedgerInv, LedgerDirectory, IsLedger
    <3> QED BY <3>1, LenProperties
  <2>4. \A k, l \in DOMAIN entries :
            k < l => /\ entries[k].version < entries[l].version
                     /\ entries[k].digest # entries[l].digest
    BY DEF LedgerInv, ValidReleases
  <2>5. \A k \in DOMAIN entries : entries[k].version \in Nat
    BY DEF LedgerInv, ValidReleases
  <2>6. CASE i = j
    BY <2>1, <2>2, <2>6
  <2>7. CASE i < j
    <3>1. entries[i].version < entries[j].version /\ entries[i].digest # entries[j].digest
      BY <2>4, <2>7
    <3>2. entries[i].version # entries[j].version
      BY <3>1, <2>5
    <3> QED BY <3>1, <3>2, <2>1, <2>2
  <2>8. CASE j < i
    <3>1. entries[j].version < entries[i].version /\ entries[j].digest # entries[i].digest
      BY <2>4, <2>8
    <3>2. entries[i].version # entries[j].version
      BY <3>1, <2>5
    <3> QED BY <3>1, <3>2, <2>1, <2>2
  <2> QED BY <2>3, <2>6, <2>7, <2>8
<1> QED BY InitLedger, NextLedger, <1>1, PTL DEF Spec

-----------------------------------------------------------------------------
(* What a ledger lists was released.                                       *)

ReleasedLedger(entries, rel) ==
    \A i \in DOMAIN entries :
        \/ entries[i] = UnpopulatedAnchor
        \/ <<entries[i].version, entries[i].digest>> \in rel

\* The inductive invariant behind LoadedIsReleased.
ReleasedInv ==
    /\ \A entries \in Entries(committed) : ReleasedLedger(entries, released)
    /\ \A m \in Maintainers :
        /\ \A entries \in Entries(staging[m]) : ReleasedLedger(entries, released)
        /\ ReleasedLedger(draft[m].entries, released)

LEMMA InitReleased == Init => ReleasedInv
<1> SUFFICES ASSUME Init PROVE ReleasedInv
  OBVIOUS
<1>1. Entries(committed) = {<<UnpopulatedAnchor>>}
  BY PathsDiffer DEF Init, UnpopulatedCorpus, Seal, Holds, EntriesOf, Entries
<1>2. ReleasedLedger(<<UnpopulatedAnchor>>, released) /\ ReleasedLedger(<<>>, released)
  BY DEF ReleasedLedger
<1>3. \A m \in Maintainers : Entries(staging[m]) = {} /\ draft[m].entries = <<>>
  BY DEF Init, Nothing, NoDraft, Entries, Holds
<1> QED BY <1>1, <1>2, <1>3 DEF ReleasedInv

\* Of an appended ledger every entry was released that was, and the last one.
LEMMA AppendReleased ==
    ASSUME NEW entries, IsLedger(entries), NEW rel, ReleasedLedger(entries, rel),
           NEW e
    PROVE  ReleasedLedger(Append(entries, e), rel \cup {<<e.version, e.digest>>})
<1>1. PICK S : entries \in Seq(S)
  BY DEF IsLedger
<1>2. /\ DOMAIN entries = 1 .. Len(entries)
      /\ DOMAIN Append(entries, e) = 1 .. Len(entries) + 1
      /\ \A i \in 1 .. Len(entries) : Append(entries, e)[i] = entries[i]
      /\ Append(entries, e)[Len(entries) + 1] = e
      /\ Len(entries) \in Nat
  BY <1>1, AppendProperties, LenProperties
<1>3. ASSUME NEW i \in DOMAIN Append(entries, e)
      PROVE  \/ Append(entries, e)[i] = UnpopulatedAnchor
             \/ <<Append(entries, e)[i].version, Append(entries, e)[i].digest>>
                    \in rel \cup {<<e.version, e.digest>>}
  <2>1. CASE i \in 1 .. Len(entries)
    BY <1>2, <2>1 DEF ReleasedLedger
  <2>2. CASE i = Len(entries) + 1
    BY <1>2, <2>2
  <2> QED BY <1>2, <2>1, <2>2
<1> QED BY <1>3 DEF ReleasedLedger

\* What was released stays so.
LEMMA ReleasedKept ==
    ASSUME NEW entries, NEW rel, NEW rel2, rel \subseteq rel2,
           ReleasedLedger(entries, rel)
    PROVE  ReleasedLedger(entries, rel2)
  BY DEF ReleasedLedger

LEMMA NextReleased == LedgerInv /\ ReleasedInv /\ [Next]_vars => ReleasedInv'
<1> SUFFICES ASSUME LedgerInv, ReleasedInv, [Next]_vars PROVE ReleasedInv'
  OBVIOUS
<1> USE DEF ReleasedInv
<1>0. /\ DOMAIN staging = Maintainers /\ DOMAIN draft = Maintainers
      /\ ReleasedLedger(<<>>, released)
  BY DEF LedgerInv, ReleasedLedger
<1>1. ASSUME NEW m \in Maintainers, Fetch(m) PROVE ReleasedInv'
  <2>1. Entries(committed) = {EntriesOf(committed)}
    BY DEF LedgerInv, Entries
  <2>2. \A n \in Maintainers :
            draft'[n].entries \in {draft[n].entries, EntriesOf(committed)}
    BY <1>0, <1>1 DEF Fetch, NoDraft
  <2> QED BY <1>1, <2>1, <2>2 DEF Fetch, repository, history
<1>2. ASSUME NEW m \in Maintainers, FetchSite(m) \/ FetchPage(m)
      PROVE  ReleasedInv'
  <2>1. draft[m] = [titles |-> draft[m].titles, entries |-> draft[m].entries,
                    rights |-> draft[m].rights, pages |-> draft[m].pages]
    BY DEF LedgerInv, IsDraft
  <2>2. \/ \E rights : draft' = [draft EXCEPT ![m].rights = rights]
        \/ \E pages : draft' = [draft EXCEPT ![m].pages = pages]
    BY <1>2 DEF FetchSite, FetchPage
  <2>3. \A n \in Maintainers : draft'[n].entries = draft[n].entries
    BY <1>0, <2>1, <2>2
  <2> QED BY <1>2, <2>3 DEF FetchSite, FetchPage, repository, history
<1>3. ASSUME NEW m \in Maintainers, FinishFetch(m) PROVE ReleasedInv'
  <2>1. \A n \in Maintainers :
            Entries(staging'[n]) \subseteq Entries(staging[n]) \cup {draft[m].entries}
    BY <1>0, <1>3, FetchLedger
  <2>2. \A n \in Maintainers : draft'[n].entries \in {draft[n].entries, <<>>}
    BY <1>0, <1>3 DEF FinishFetch, NoDraft
  <2> QED BY <1>0, <1>3, <2>1, <2>2 DEF FinishFetch, repository, history
<1>4. ASSUME NEW m \in Maintainers, GiveUp(m) PROVE ReleasedInv'
  <2>1. \A n \in Maintainers : draft'[n].entries \in {draft[n].entries, <<>>}
    BY <1>0, <1>4 DEF GiveUp, NoDraft
  <2> QED BY <1>0, <1>4, <2>1 DEF GiveUp, repository, history
<1>5. ASSUME NEW m \in Maintainers, Review(m) PROVE ReleasedInv'
  <2>1. PICK new : Write(m, CorpusFiles(staging[m], new, EntriesOf(staging[m])))
    BY <1>5 DEF Review
  <2>2. EntriesOf(staging[m]) \in Entries(staging[m])
    BY <1>5 DEF Review, Readable, Entries
  <2>3. \A n \in Maintainers :
            Entries(staging'[n]) \subseteq Entries(staging[n]) \cup {EntriesOf(staging[m])}
    BY <1>0, <2>1, CommandLedger
  <2> QED BY <1>5, <2>2, <2>3 DEF Review, repository
<1>6. ASSUME NEW m \in Maintainers, ReleaseCorpus(m) PROVE ReleasedInv'
  <2> DEFINE entries == EntriesOf(committed)
             new(version) == ManifestOfView(version, ManifestOf(staging[m]))
             e(version) == Release(version, new(version), Latest(entries).digest)
  <2>1. PICK version \in 1 .. MaxVersion :
            /\ Write(m, CorpusFiles(staging[m], new(version), Append(entries, e(version))))
            /\ released' = released \cup {<<version, new(version).digest>>}
    BY <1>6 DEF ReleaseCorpus
  <2>2. e(version).version = version /\ e(version).digest = new(version).digest
    BY DEF Release, ManifestOfView, Identity
  <2>3. IsLedger(entries) /\ ReleasedLedger(entries, released)
    BY DEF LedgerInv, LedgerDirectory, Entries
  <2>4. ReleasedLedger(Append(entries, e(version)), released')
    <3> HIDE DEF e, new, entries
    <3> QED BY <2>1, <2>2, <2>3, AppendReleased
  <2>5. \A n \in Maintainers :
            Entries(staging'[n])
                \subseteq Entries(staging[n]) \cup {Append(entries, e(version))}
    <3>1. Write(m, CorpusFiles(staging[m], new(version), Append(entries, e(version))))
      BY <2>1
    <3> HIDE DEF e, new, entries
    <3> QED BY <1>0, <3>1, CommandLedger
  <2>6. released \subseteq released'
    BY <2>1
  <2>7. UNCHANGED <<draft, committed>>
    BY <1>6 DEF ReleaseCorpus, repository
  <2> HIDE DEF e, new, entries
  <2> QED BY <2>4, <2>5, <2>6, <2>7, ReleasedKept
<1>7. ASSUME NEW m \in Maintainers, Abandon(m) PROVE ReleasedInv'
  <2>1. \A n \in Maintainers : Entries(staging'[n]) \subseteq Entries(staging[n])
    BY <1>0, <1>7 DEF Abandon, Entries, Holds, Nothing
  <2> QED BY <1>7, <2>1 DEF Abandon, repository, history
<1>8. ASSUME NEW m \in Maintainers, Publish(m) PROVE ReleasedInv'
  BY <1>8 DEF Publish, tool
<1>9. CASE EditPage \/ ChangeRights \/ UNCHANGED vars
  BY <1>9 DEF EditPage, ChangeRights, vars, repository, tool, history
<1> QED BY <1>1, <1>2, <1>3, <1>4, <1>5, <1>6, <1>7, <1>8, <1>9 DEF Next

\* A directory that loads is a release whose version and identity passed the
\* checks of command_release: neither another maintainer's ledger nor the rest
\* of an interrupted write makes one (load_vasp_wiki_corpus, _write_corpus).
THEOREM LoadedIsReleasedHolds == Spec => []LoadedIsReleased
<1>1. LedgerInv /\ ReleasedInv => LoadedIsReleased
  <2> SUFFICES ASSUME LedgerInv, ReleasedInv, NEW dir \in Directories,
                      NEW text \in LicenseTexts, Loads(dir, text)
               PROVE  <<ManifestOf(dir).version, ManifestOf(dir).digest>> \in released
    BY DEF LoadedIsReleased
  <2> DEFINE entries == EntriesOf(dir)
             latest == entries[Len(entries)]
  <2>1. /\ Holds(dir, Releases, "releases")
        /\ ValidReleases(entries)
        /\ latest.version = ManifestOf(dir).version
        /\ latest.kind = "authoritative"
        /\ latest.digest = ManifestOf(dir).digest
    BY DEF Loads, LatestRelease, EntriesOf, ManifestOf
  <2>2. IsLedger(entries) /\ ReleasedLedger(entries, released)
    <3>1. entries \in Entries(dir)
      BY <2>1 DEF Entries
    <3>2. LedgerDirectory(dir)
      BY DEF LedgerInv, Directories
    <3>3. IsLedger(entries)
      BY <2>1, <3>2 DEF LedgerDirectory
    <3> HIDE DEF entries
    <3>4. ReleasedLedger(entries, released)
      BY <3>1 DEF ReleasedInv, Directories
    <3> QED BY <3>3, <3>4
  <2>3. Len(entries) \in DOMAIN entries
    BY <2>1, <2>2, LatestIsThere DEF ValidReleases
  <2>4. UnpopulatedAnchor.kind = "unpopulated"
    BY DEF UnpopulatedAnchor, Release, Unpopulated, ManifestOfView
  <2> QED BY <2>1, <2>2, <2>3, <2>4 DEF ReleasedLedger
<1> QED BY <1>1, InitLedger, NextLedger, InitReleased, NextReleased, PTL DEF Spec

-----------------------------------------------------------------------------
(* Types.                                                                  *)

TypeInv ==
    /\ TypeOK
    /\ DOMAIN draft = Maintainers
    /\ \A m \in Maintainers : IsDraft(draft[m])

LEMMA InitTypes == Init => TypeInv
<1> SUFFICES ASSUME Init PROVE TypeInv
  OBVIOUS
<1>1. wiki \in [Pages -> Revisions] /\ siteRights \in Rights
  BY RightsAssumption DEF Init
<1>2. crashes \in 0 .. MaxCrashes
  BY BoundsAssumption DEF Init
<1> QED BY <1>1, <1>2 DEF Init, TypeInv, TypeOK, IsDraft, NoDraft

LEMMA NextTypes == TypeInv /\ [Next]_vars => TypeInv'
<1> SUFFICES ASSUME TypeInv, [Next]_vars PROVE TypeInv'
  OBVIOUS
<1> USE DEF TypeInv, TypeOK
<1>1. ASSUME NEW m \in Maintainers, Fetch(m) PROVE TypeInv'
  <2>1. PICK titles \in SUBSET Titles \ {{}} :
            draft' = [draft EXCEPT ![m] =
                [NoDraft EXCEPT !.titles = titles, !.entries = EntriesOf(committed)]]
    BY <1>1 DEF Fetch
  <2>2. draft'[m] = [titles |-> titles, entries |-> EntriesOf(committed),
                     rights |-> NoRights, pages |-> {}]
    BY <2>1 DEF NoDraft
  <2>3. \A n \in Maintainers \ {m} : draft'[n] = draft[n]
    BY <2>1
  <2>4. DOMAIN draft' = Maintainers
    BY <2>1
  <2>5. \A n \in Maintainers : /\ IsDraft(draft'[n])
                              /\ draft'[n].titles \subseteq Titles
                              /\ draft'[n].pages \subseteq PageRecords
                              /\ draft'[n].rights \in Rights \cup {NoRights}
    BY <2>2, <2>3 DEF IsDraft
  <2> QED BY <1>1, <2>4, <2>5 DEF Fetch, repository, upstream
<1>2. ASSUME NEW m \in Maintainers, FetchSite(m) PROVE TypeInv'
  <2>1. draft'[m] = [titles |-> draft[m].titles, entries |-> draft[m].entries,
                     rights |-> siteRights, pages |-> draft[m].pages]
    BY <1>2 DEF FetchSite, IsDraft
  <2>2. /\ DOMAIN draft' = Maintainers
        /\ \A n \in Maintainers \ {m} : draft'[n] = draft[n]
    BY <1>2 DEF FetchSite
  <2> QED BY <1>2, <2>1, <2>2 DEF FetchSite, IsDraft, repository, upstream
<1>3. ASSUME NEW m \in Maintainers, FetchPage(m) PROVE TypeInv'
  <2>1. PICK title \in Missing(m), content \in Answers :
            draft' = [draft EXCEPT ![m].pages = @ \cup
                    {PageRecord(title, content, content.page,
                                content.revision, "pending")}]
    BY <1>3 DEF FetchPage
  <2> DEFINE record == PageRecord(title, content, content.page, content.revision, "pending")
  <2>2. record \in PageRecords
    BY <2>1 DEF Missing, Answers, PageRecord, PageRecords
  <2>3. draft' = [draft EXCEPT ![m].pages = @ \cup {record}]
    BY <2>1
  <2> HIDE DEF record
  <2>4. draft'[m] = [titles |-> draft[m].titles, entries |-> draft[m].entries,
                     rights |-> draft[m].rights,
                     pages |-> draft[m].pages \cup {record}]
    <3>1. draft[m] = [titles |-> draft[m].titles, entries |-> draft[m].entries,
                      rights |-> draft[m].rights, pages |-> draft[m].pages]
      BY DEF IsDraft
    <3>2. draft'[m] = [draft[m] EXCEPT !.pages = draft[m].pages \cup {record}]
      BY <2>3, Zenon
    <3> QED BY <3>1, <3>2
  <2>5. /\ DOMAIN draft' = Maintainers
        /\ \A n \in Maintainers \ {m} : draft'[n] = draft[n]
    BY <2>3
  <2>6. \A n \in Maintainers : /\ IsDraft(draft'[n])
                              /\ draft'[n].titles \subseteq Titles
                              /\ draft'[n].pages \subseteq PageRecords
                              /\ draft'[n].rights \in Rights \cup {NoRights}
    BY <2>2, <2>4, <2>5 DEF IsDraft
  <2> QED BY <1>3, <2>5, <2>6 DEF FetchPage, repository, upstream
<1>4. \A m \in Maintainers : \A contents :
         Write(m, contents) => crashes' \in 0 .. MaxCrashes
  BY BoundsAssumption DEF Write
<1>5. ASSUME NEW m \in Maintainers, FinishFetch(m) PROVE TypeInv'
  <2>1. crashes' \in 0 .. MaxCrashes
    BY <1>4, <1>5 DEF FinishFetch
  <2> QED BY <1>5, <2>1 DEF FinishFetch, IsDraft, NoDraft, repository, upstream
<1>6. ASSUME NEW m \in Maintainers, GiveUp(m) PROVE TypeInv'
  BY <1>6 DEF GiveUp, IsDraft, NoDraft, repository, upstream
<1>7. ASSUME NEW m \in Maintainers, Review(m) \/ ReleaseCorpus(m) PROVE TypeInv'
  <2>1. crashes' \in 0 .. MaxCrashes
    BY <1>4, <1>7 DEF Review, ReleaseCorpus
  <2> QED BY <1>7, <2>1 DEF Review, ReleaseCorpus, repository, upstream
<1>8. ASSUME NEW m \in Maintainers, Abandon(m) PROVE TypeInv'
  BY <1>8 DEF Abandon, repository, upstream
<1>9. ASSUME NEW m \in Maintainers, Publish(m) PROVE TypeInv'
  <2>1. pin' = pin \/ pin' = ManifestOf(staging[m]).license.text
    BY <1>9 DEF Publish
  <2>2. ManifestOf(staging[m]).license.text \in LicenseTexts
    <3>1. Loads(staging[m], pin') /\ Populated(staging[m])
      BY <1>9 DEF Publish
    <3>2. ValidManifest(ManifestOf(staging[m]), TRUE)
      BY <3>1 DEF Loads, ManifestOf
    <3> QED BY <3>1, <3>2 DEF ValidManifest, ValidLicense, Populated
  <2> QED BY <1>9, <2>1, <2>2 DEF Publish, tool, upstream
<1>10. CASE EditPage
  BY <1>10 DEF EditPage, repository, tool
<1>11. CASE ChangeRights
  BY <1>11 DEF ChangeRights, repository, tool
<1>12. CASE UNCHANGED vars
  BY <1>12 DEF vars, repository, tool, upstream
<1> QED BY <1>1, <1>2, <1>3, <1>5, <1>6, <1>7, <1>8, <1>9, <1>10, <1>11, <1>12 DEF Next

\* The state of the tool and of the wiki keeps its types.
THEOREM TypesKept == Spec => []TypeOK
<1>1. TypeInv => TypeOK
  BY DEF TypeInv
<1> QED BY <1>1, InitTypes, NextTypes, PTL DEF Spec
=============================================================================
