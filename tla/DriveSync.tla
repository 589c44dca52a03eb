------------------------------ MODULE DriveSync ------------------------------
(***************************************************************************)
(* providers/google/drive.py: the files below one folder, recursively,     *)
(* through Drive's changes feed.  Resource state keeps the feed position,  *)
(* the folders known below the root and the files landed, each with its    *)
(* parent, so that what leaves the scope can be named.                     *)
(***************************************************************************)
EXTENDS Sync, Functions

CONSTANTS Folders,   \* the items that are folders
          Roots      \* folders a Binding may name, which never change

NoParent == "none"

ASSUME DriveAssumption ==
    /\ Folders \subseteq Items
    /\ Roots \cap Items = {}
    /\ NoParent \notin Roots \cup Items

NewEntry(scope) == [scope |-> scope, token |-> 0, walked |-> FALSE,
                  folders |-> [f \in {scope} |-> NoParent],
                  files |-> [f \in {} |-> NoParent],
                  seen |-> FALSE]

DriveInit == res = NewEntry(NoParent)
-----------------------------------------------------------------------------
(* Drive: a file is in the bin when a folder above it is *)

Parent(i, m) ==
    IF i \in Items /\ LastOf(i, m) # 0 THEN Entry(i, m).at ELSE NoParent

\* What follows from a rule is in every set that the rule closes.
InAll(sets) == {x \in UNION sets : \A S \in sets : x \in S}

FoldersAbove(i, m) ==
    LET steps == {<<j, Parent(j, m)>> : j \in Folders \cup {i}}
        up == {step \in steps : step[2] \in Folders}
    IN  InAll({S \in SUBSET Folders :
                  \A step \in up : step[1] \in S \cup {i} => step[2] \in S})
Above(i, m) ==
    LET chain == {i} \cup FoldersAbove(i, m)
    IN  chain \cup {Parent(j, m) : j \in chain}
Trashed(i, m) == \E j \in Above(i, m) \cap Items : ~ Alive(j, m)

DriveHost(i, m) ==
    IF i \notin Folders /\ res.scope \in Above(i, m) /\ ~ Trashed(i, m)
    THEN LastOf(i, m) ELSE 0

\* Into a folder that is not below it.
DriveChange(i) ==
    \E at \in Roots \cup Folders, gone \in BOOLEAN :
        /\ gone => Alive(i, Now) /\ at = Parent(i, Now)
        /\ at \in Folders => /\ at # i
                             /\ Alive(at, Now)
                             /\ i \notin Above(at, Now)
        /\ Change(i, at, gone)

-----------------------------------------------------------------------------
(* A Run *)

\* _state_for: the entry of another scope is replaced.
DriveStart ==
    /\ kind = "drive"
    /\ LET entry == IF res.scope = conf THEN res ELSE NewEntry(conf)
       IN  Begin([pc |-> IF entry.walked THEN "changes" ELSE "token",
                  res |-> entry])

\* The token first, then the walk.
StartToken ==
    /\ Reading("drive", "token")
    /\ Go([pc |-> "walk", token |-> Now, pending |-> {job.scope},
           res |-> NewEntry(job.scope)])

With(f, keys, parent) == Over([k \in keys |-> parent], f)
Without(f, keys) == Restrict(f, DOMAIN f \ keys)

\* files.list with one folder to be the parent.
Listing(folder) ==
    {i \in Items : Parent(i, Now) = folder /\ ~ Trashed(i, Now)}

\* _cold_walk: one listing of a pending folder.
Walk ==
    /\ Reading("drive", "walk")
    /\ \E folder \in job.pending : \E in \in {Listing(folder)} :
          LET sub == (in \cap Folders) \ DOMAIN job.res.folders
              found == in \ Folders
          IN  Go([pending |-> (job.pending \ {folder}) \cup sub,
                  batch |-> Yield({Record(i) : i \in found}),
                  res |-> [job.res EXCEPT !.folders = With(@, sub, folder),
                                          !.files = With(@, found, folder)]])

\* Mutant: the token is asked for when the walk has ended.
WalkThenToken ==
    /\ Reading("drive", "walk")
    /\ job.pending = {}
    /\ Finish([job.res EXCEPT !.token = Now, !.walked = TRUE], {},
              Items \ DOMAIN job.res.files)

WalkEnds ==
    /\ Reading("drive", "walk")
    /\ job.pending = {}
    /\ Finish([job.res EXCEPT !.token = job.token, !.walked = TRUE], {},
              Items \ DOMAIN job.res.files)

FeedStart ==
    /\ Reading("drive", "changes")
    /\ Go([pc |-> "feed", pos |-> job.res.token])

\* The token, or the one of a later page, is rejected: the walk follows in the
\* same Run, and what the earlier pages yielded stays in the package.
TokenExpired ==
    /\ Reading("drive", "feed")
    /\ job.pos < floor
    /\ Go([pc |-> "token"])

Subtree(folders, f) ==
    InAll({S \in SUBSET DOMAIN folders :
              /\ f \in S
              /\ \A g \in DOMAIN folders : folders[g] \in S => g \in S})

Drop(entry, gone) ==
    LET left == {i \in DOMAIN entry.files : entry.files[i] \in gone}
    IN  <<[entry EXCEPT !.folders = Without(@, gone),
                        !.files = Without(@, left)],
          {Tombstone(i) : i \in left}>>

\* Mutant: the subtree is forgotten without a word.
ForgetSubtree(entry, f) == <<Drop(entry, Subtree(entry.folders, f))[1], {}>>

\* drop_subtree: the entry afterwards, and the tombstones.
DropSubtree(entry, f) == Drop(entry, Subtree(entry.folders, f))

Forget(entry, i) ==
    <<[entry EXCEPT !.files = Without(@, {i})],
      IF i \in DOMAIN entry.files THEN {Tombstone(i)} ELSE {}>>

\* A change of a folder known to be below the root.
KnownFolder(entry, f, gone, parent) ==
    IF gone \/ parent \notin DOMAIN entry.folders
    THEN DropSubtree(entry, f)
    ELSE <<[entry EXCEPT !.folders[f] = parent], {}>>

\* Mutant: a folder is remembered as a file too.
FolderIsFile(entry, i, gone, parent) ==
    IF ~ gone /\ parent \in DOMAIN entry.folders
    THEN <<[entry EXCEPT !.files = With(@, {i}, parent)], {Record(i)}>>
    ELSE Forget(entry, i)

\* Any other change.
OtherItem(entry, i, gone, parent) ==
    LET inScope == ~ gone /\ parent \in DOMAIN entry.folders
    IN  CASE inScope /\ i \in Folders ->
               <<[entry EXCEPT !.folders = With(@, {i}, parent)], {}>>
          [] inScope /\ i \notin Folders ->
               <<[entry EXCEPT !.files = With(@, {i}, parent)], {Record(i)}>>
          [] OTHER -> Forget(entry, i)

\* The next change of the feed.  An item is listed once, where its latest
\* change is, and as it is now.
Listed(n) == LastOf(log[n].id, Now) = n
FeedChange ==
    /\ Reading("drive", "feed")
    /\ job.pos >= floor
    /\ \E n \in job.pos + 1 .. Now :
          LET i == log[n].id
              gone == Trashed(i, Now)
              after == IF i \in DOMAIN job.res.folders
                       THEN KnownFolder(job.res, i, gone, Parent(i, Now))
                       ELSE OtherItem(job.res, i, gone, Parent(i, Now))
          IN  /\ Listed(n)
              /\ \A k \in job.pos + 1 .. n - 1 : ~ Listed(k)
              /\ Go([pos |-> n, res |-> after[1], batch |-> Yield(after[2])])

\* newStartPageToken.
FeedEnds ==
    /\ Reading("drive", "feed")
    /\ job.pos = Now
    /\ Finish([job.res EXCEPT !.token = Now], {}, {})

\* _single_file.
FileStart ==
    /\ kind = "file"
    /\ Begin([pc |-> "file",
              res |-> IF res.scope = conf THEN res ELSE NewEntry(conf)])

\* Mutant: a file that is not there is a deletion.
SingleFileGone ==
    /\ Reading("file", "file")
    /\ LET i == job.scope IN
       IF Alive(i, Now)
         THEN Finish([job.res EXCEPT !.seen = TRUE], {Record(i)}, {})
         ELSE Finish(job.res, {Tombstone(i)}, {})

\* A file that is not there fails the Run, unless this entry has seen it; one
\* in the bin is then nothing to land.
SingleFile ==
    /\ Reading("file", "file")
    /\ LET i == job.scope IN
       \/ /\ Alive(i, Now)
          /\ Finish([job.res EXCEPT !.seen = TRUE], {Record(i)}, {})
       \/ /\ ~ Alive(i, Now)
          /\ job.res.seen
          /\ Finish(job.res, {Tombstone(i)}, {})
       \/ /\ ~ Alive(i, Now)
          /\ ~ job.res.seen
          /\ LastOf(i, Now) # 0
          /\ Finish(job.res, {}, {})

File == FileStart \/ SingleFile

Drive ==
    \/ DriveStart \/ StartToken \/ Walk \/ WalkEnds
    \/ FeedStart \/ TokenExpired \/ FeedChange \/ FeedEnds

-----------------------------------------------------------------------------
(* What the documentation leaves out of the promise *)

\* The folders the entry has above a file.
KnownAbove(i) ==
    InAll({S \in SUBSET DOMAIN res.folders :
              /\ res.files[i] \in S
              /\ \A f \in S : \/ res.folders[f] = NoParent
                              \/ res.folders[f] \in S})

\* "Children the feed will not replay": a folder on the way to i has changed
\* after what is in it, so that the feed lists the child while the folder is
\* not known.  That a folder was moved in is only one way to get there.
Hidden(i) ==
    \E j \in Above(i, Now) \cap Items :
        /\ Parent(j, Now) \in Folders
        /\ LastOf(Parent(j, Now), Now) > LastOf(j, Now)
=============================================================================
