----------------------------- MODULE AtomicFile -----------------------------
(***************************************************************************)
(* One file that safeAtomicWrite replaces and startup recovers: temp file, *)
(* proof, rename and clean-up by the server and by a command of the CLI,   *)
(* either of which may be killed between any two file operations, and the  *)
(* recovery of what was left, by hard link or by a marked copy that the    *)
(* next start resumes.  Recovery may be killed anywhere too.               *)
(*                                                                         *)
(* The n-th write begun is generation n; a file holds the first `bytes` of *)
(* Whole units of its generation.  A name is bound to an inode: that of    *)
(* the temp file or of the copy recovery made of it.                       *)
(*                                                                         *)
(* A kill loses no file operation that was done (fsync, power loss and     *)
(* Windows' open handles are left out).  Bounds: MaxWrites, MaxCrashes,    *)
(* MaxFailures failing file operations.                                    *)
(***************************************************************************)
EXTENDS Naturals, FiniteSets

CONSTANTS
  Kinds,        \* the kinds of file: by extension, and the ticket's .gitignore
  MaxWrites,    \* bound on the writes of a behaviour
  MaxCrashes,   \* bound on the kills of a behaviour
  MaxFailures,  \* bound on the failing file operations
  NoFile        \* no file

ASSUME FileAssumption ==
  /\ Kinds \subseteq {"json", "jsonl", "yaml", "ignore"}
  /\ MaxWrites \in Nat /\ MaxCrashes \in Nat /\ MaxFailures \in Nat

ASSUME NoFileAssumption ==
  NoFile \notin Nat \cup [inode : {"tmp", "copy"}, gen : Nat, bytes : Nat]

VARIABLES
  kind,      \* what the file is
  links,     \* the file system has hard links
  target,    \* the file: inode, generation and bytes; NoFile when absent
  tmps,      \* bytes in the temp file of each generation, NoFile when gone
  proofs,    \* the proof beside it: none, torn or whole
  markers,   \* the recovery marker beside it and how far it got
  write,     \* what the server and the CLI are writing
  up,        \* the server: down, recovering, running, or stopped by recovery
  rec,       \* where recovery is, with which generation
  todo,      \* the temp files recovery has still to look at
  unread,    \* ghost: those this start could not look at, and passed over
  begun, crashes, failures,
  committed, \* ghost: the generation last published, 0 for none
  meddled    \* ghost: a writer fell into a promotion or beside its marker

store == <<target, tmps, proofs, markers>>
fixed == <<kind, links>>
counts == <<begun, crashes, failures>>
ghost == <<committed, meddled>>
fileVars == <<fixed, store, write, up, rec, todo, unread, counts, ghost>>

-----------------------------------------------------------------------------
FileGenerations == 1 .. MaxWrites
Actors == {"server", "cli"}
Whole == 2
NeedsProof == kind \in {"jsonl", "yaml"}

File(inode, n, bytes) == [inode |-> inode, gen |-> n, bytes |-> bytes]
Names(inode, n) == target # NoFile /\ target.inode = inode /\ target.gen = n
WholeFile(f) == f # NoFile /\ f.bytes = Whole

Writing(pc, n) == [pc |-> pc, gen |-> n]
Done == Writing("idle", 0)
At(pc, n) == [pc |-> pc, gen |-> n, bytes |-> 0]
Proceed(pc) == rec' = [rec EXCEPT !.pc = pc]

Failure == failures < MaxFailures /\ failures' = failures + 1 /\ UNCHANGED <<begun, crashes>>

-----------------------------------------------------------------------------
(* atomicWrite.                                                            *)

Idle(a) == write[a].pc = "idle"
Turn(a, pc) == write' = [write EXCEPT ![a].pc = pc]
Rests == UNCHANGED <<fixed, up, rec, todo, unread>>

\* The temp file is created under a name of its own.
BeginWrite(a) ==
  /\ Idle(a) /\ begun < MaxWrites
  /\ a = "server" => up = "running"
  /\ begun' = begun + 1
  /\ write' = [write EXCEPT ![a] = Writing("filling", begun')]
  /\ tmps' = [tmps EXCEPT ![begun'] = 0]
  /\ UNCHANGED <<target, proofs, markers, crashes, failures, ghost>>
  /\ Rests

\* Recovery may have removed the temp file under the writer, who goes on.  One
\* call writes the few bytes of a .gitignore.
FillTmp(a) ==
  LET n == write[a].gen IN
  /\ write[a].pc = "filling"
  /\ tmps' = [tmps EXCEPT ![n] = IF @ = NoFile THEN NoFile
                                 ELSE IF kind = "ignore" THEN Whole ELSE @ + 1]
  /\ IF tmps'[n] \in {NoFile, Whole}
       THEN Turn(a, IF NeedsProof THEN "proving" ELSE "renaming")
       ELSE write' = write
  /\ UNCHANGED <<target, proofs, markers, counts, ghost>>
  /\ Rests

Prove(a) ==
  LET n == write[a].gen IN
  /\ write[a].pc = "proving"
  /\ \/ /\ proofs[n] = "none"
        /\ proofs' = [proofs EXCEPT ![n] = "torn"] /\ write' = write
     \/ /\ proofs[n] = "torn"
        /\ proofs' = [proofs EXCEPT ![n] = "whole"] /\ Turn(a, "renaming")
  /\ UNCHANGED <<target, tmps, markers, counts, ghost>>
  /\ Rests

\* The writer removes or replaces a name while recovery promotes a temp file,
\* or beside the marker of an earlier promotion.
Interferes ==
  meddled' = (meddled \/ rec.pc # "scan"
                      \/ \E m \in FileGenerations : markers[m] # "none")

\* The rename publishes the generation.  It is without effect when both names
\* are the same inode, and fails when recovery has removed the temp file.
Rename(a) ==
  LET n == write[a].gen IN
  /\ write[a].pc = "renaming"
  /\ \/ /\ tmps[n] = NoFile
        /\ Turn(a, "failing") /\ UNCHANGED <<store, ghost>>
     \/ /\ tmps[n] # NoFile
        /\ Turn(a, "tidying")
        /\ \/ Names("tmp", n) /\ UNCHANGED <<target, tmps>>
           \/ /\ ~Names("tmp", n)
              /\ target' = File("tmp", n, tmps[n])
              /\ tmps' = [tmps EXCEPT ![n] = NoFile]
        /\ committed' = n
        /\ Interferes
        /\ UNCHANGED <<proofs, markers>>
  /\ UNCHANGED counts
  /\ Rests

\* A proof that cannot be removed is left to recovery.
Tidy(a) ==
  /\ write[a].pc = "tidying"
  /\ write' = [write EXCEPT ![a] = Done]
  /\ \/ proofs' = [proofs EXCEPT ![write[a].gen] = "none"] /\ UNCHANGED counts
     \/ proofs' = proofs /\ Failure
  /\ UNCHANGED <<target, tmps, markers, ghost>>
  /\ Rests

\* A write that fails takes its temp file and proof out again.
WriteFails(a) ==
  /\ write[a].pc \in {"filling", "proving", "renaming"}
  /\ Failure
  /\ Turn(a, "failing")
  /\ UNCHANGED <<store, ghost>>
  /\ Rests

TakeBack(a) ==
  LET n == write[a].gen IN
  /\ write[a].pc = "failing"
  /\ write' = [write EXCEPT ![a] = Done]
  /\ tmps' = [tmps EXCEPT ![n] = NoFile]
  /\ proofs' = [proofs EXCEPT ![n] = "none"]
  /\ Interferes /\ committed' = committed
  /\ UNCHANGED <<target, markers, counts>>
  /\ Rests

-----------------------------------------------------------------------------
(* recoverOrphanFileGenerations, when the server starts.                          *)

Leftovers == {n \in FileGenerations : tmps[n] # NoFile \/ proofs[n] # "none"}

\* A directory that cannot be read is passed over.
Boot ==
  /\ up \in {"down", "blocked"}
  /\ up' = "recovering"
  /\ rec' = At("scan", 0)
  /\ \/ todo' = Leftovers /\ unread' = {} /\ UNCHANGED counts
     \/ todo' = {} /\ unread' = Leftovers /\ Failure
  /\ UNCHANGED <<fixed, store, write, ghost>>

\* Startup stops; temp file, marker and target stay as they are.
Block ==
  /\ up' = "blocked"
  /\ rec' = At("scan", 0) /\ todo' = {}

Pass(n) == rec' = At("scan", 0) /\ todo' = todo \ {n} /\ up' = up

\* Generation n is what readers find from now on, if the name is still its, and
\* the first thing they find: recovery may not publish in the place of another.
Published(n) ==
  /\ committed' = IF committed = 0 /\ target' # NoFile /\ target'.gen = n
                    THEN n ELSE committed
  /\ UNCHANGED <<meddled, todo, up>>

\* Mutant: a line file is never confirmed as complete.
VerdictWithoutProof(n) ==
  IF kind \in {"json", "ignore"} /\ tmps[n] = Whole THEN "promote"
  ELSE IF kind = "jsonl" \/ tmps[n] # 0 THEN "leave" ELSE "discard"

\* judgeTmpContent: a prefix of a JSON document is not one, lines and YAML need
\* the proof to tell a prefix from the whole, and a .gitignore is not looked into.
Verdict(n) ==
  CASE kind = "json" -> IF tmps[n] = Whole THEN "promote" ELSE "discard"
    [] kind \in {"yaml", "ignore"} /\ tmps[n] = 0 -> "discard"
    [] kind = "ignore" /\ tmps[n] # 0 -> "promote"
    [] OTHER -> IF proofs[n] = "whole" /\ tmps[n] = Whole THEN "promote" ELSE "leave"

\* Mutant: the entry the marker names must have the size it had then.
ResumeSameFile(n) ==
  CASE markers[n] = "copying" /\ Names("copy", n) ->
         IF target.bytes = 0 THEN "truncate" ELSE "block"
    [] markers[n] = "complete" /\ Names("copy", n) -> "clean"
    [] OTHER -> "block"

\* A marked temp file beside a target: the copy is finished, is to be made
\* again, or cannot be told from somebody else's file.
Resume(n) ==
  CASE markers[n] = "source" /\ WholeFile(target) /\ target.gen = n -> "clean"
    [] markers[n] = "copying" /\ Names("copy", n) -> "truncate"
    [] markers[n] = "complete" /\ Names("copy", n) -> "clean"
    [] OTHER -> "block"

\* One temp file is looked at.
Scan(n) ==
  /\ up = "recovering" /\ rec.pc = "scan" /\ n \in todo
  /\ tmps[n] # NoFile
  /\ LET act == IF target = NoFile THEN Verdict(n)
                ELSE IF markers[n] = "none" THEN "discard" ELSE Resume(n)
     IN
     \/ act = "block" /\ Block
     \/ act = "leave" /\ Pass(n)
     \/ /\ act \in {"promote", "discard", "clean", "truncate"}
        /\ rec' = [At(act, n) EXCEPT !.bytes = tmps[n]]
        /\ UNCHANGED <<todo, up>>
  /\ UNCHANGED <<fixed, store, write, unread, counts, ghost>>

\* A temp file cannot be opened, judged or compared with what its marker says:
\* it is left, whatever stands at the name, and startup goes on.  It stops only
\* when the marker or the target beside it is what could not be read.
ScanFails(n) ==
  /\ up = "recovering" /\ rec.pc = "scan" /\ n \in todo
  /\ tmps[n] # NoFile
  /\ Failure
  /\ \/ Pass(n) /\ unread' = unread \cup {n}
     \/ markers[n] # "none" /\ target # NoFile /\ Block /\ unread' = unread
  /\ UNCHANGED <<fixed, store, write, ghost>>

\* A proof whose temp file is gone is removed, if that can be done.
SweepProof(n) ==
  /\ up = "recovering" /\ rec.pc = "scan" /\ n \in todo
  /\ tmps[n] = NoFile
  /\ \/ proofs' = [proofs EXCEPT ![n] = "none"] /\ UNCHANGED counts
     \/ proofs' = proofs /\ Failure
  /\ Pass(n)
  /\ UNCHANGED <<fixed, target, tmps, markers, write, unread, ghost>>

\* Mutant: publication replaces what has come to be at the name.
PublishOver(n) ==
  /\ rec.pc = "promote" /\ links
  /\ target' = File("tmp", n, tmps[n])
  /\ Proceed("clean") /\ Published(n)
  /\ UNCHANGED <<tmps, proofs, markers>>

\* The temp file is linked under the name.  It must be the file that was
\* judged, and the name must be free: otherwise it stays where it is, and startup
\* stops if it is marked.
Publish(n) ==
  /\ rec.pc = "promote"
  /\ \/ /\ target = NoFile /\ tmps[n] = rec.bytes /\ links
        /\ target' = File("tmp", n, tmps[n])
        /\ Proceed("clean") /\ Published(n)
     \/ /\ ~(target = NoFile /\ tmps[n] = rec.bytes)
        /\ IF markers[n] = "none" THEN Pass(n) ELSE Block
        /\ UNCHANGED <<target, ghost>>
  /\ UNCHANGED <<tmps, proofs, markers>>

\* Without hard links a copy is made, which is marked first.  A torn marker of
\* an earlier try is retired.
MarkTmp(n) ==
  /\ rec.pc = "promote" /\ ~links
  /\ target = NoFile /\ tmps[n] = rec.bytes
  /\ \/ /\ markers[n] = "torn"
        /\ markers' = [markers EXCEPT ![n] = "none"] /\ rec' = rec
     \/ /\ markers[n] = "none"
        /\ markers' = [markers EXCEPT ![n] = "torn"] /\ Proceed("mark")
     \/ /\ markers[n] \in {"source", "copying", "complete"}
        /\ Proceed("create") /\ markers' = markers
  /\ UNCHANGED <<target, tmps, proofs, todo, up>>

MarkSource(n) ==
  /\ rec.pc = "mark"
  /\ markers' = [markers EXCEPT ![n] = "source"]
  /\ Proceed("create") /\ UNCHANGED <<todo, up>>
  /\ UNCHANGED <<target, tmps, proofs>>

\* The copy is created only where there is no file.
CreateCopy(n) ==
  /\ rec.pc = "create"
  /\ \/ /\ target = NoFile
        /\ target' = File("copy", n, 0)
        /\ Proceed("own") /\ UNCHANGED <<todo, up>>
     \/ target # NoFile /\ Block /\ target' = target
  /\ UNCHANGED <<tmps, proofs, markers>>

OwnCopy(n) ==
  /\ rec.pc = "own"
  /\ markers' = [markers EXCEPT ![n] = "copying"]
  /\ rec' = [rec EXCEPT !.pc = "copy", !.bytes = 0] /\ UNCHANGED <<todo, up>>
  /\ UNCHANGED <<target, tmps, proofs>>

\* A copy that is resumed begins again.
Truncate(n) ==
  /\ rec.pc = "truncate"
  /\ target' = IF Names("copy", n) THEN [target EXCEPT !.bytes = 0] ELSE target
  /\ rec' = [rec EXCEPT !.pc = "recopy", !.bytes = 0] /\ UNCHANGED <<todo, up>>
  /\ UNCHANGED <<tmps, proofs, markers>>

\* The bytes go to the open inode, whatever the name is bound to by now.
Copy(n) ==
  /\ rec.pc \in {"copy", "recopy"} /\ rec.bytes < Whole
  /\ rec' = [rec EXCEPT !.bytes = @ + 1]
  /\ target' = IF Names("copy", n) THEN [target EXCEPT !.bytes = @ + 1] ELSE target
  /\ UNCHANGED <<tmps, proofs, markers, todo, up>>

\* All bytes are copied: the name must still be the copy's.
Copied(n) ==
  /\ rec.pc \in {"copy", "recopy"} /\ rec.bytes = Whole
  /\ UNCHANGED store
  /\ \/ /\ Names("copy", n) /\ rec.pc = "copy"
        /\ Proceed("complete") /\ UNCHANGED <<todo, up, ghost>>
     \/ /\ Names("copy", n) /\ rec.pc = "recopy"
        /\ Proceed("clean") /\ Published(n)
     \/ /\ ~Names("copy", n) /\ UNCHANGED ghost
        /\ IF rec.pc = "copy" THEN Pass(n) ELSE Block

MarkComplete(n) ==
  /\ rec.pc = "complete"
  /\ markers' = [markers EXCEPT ![n] = "complete"]
  /\ UNCHANGED <<target, tmps, proofs>>
  /\ Proceed("clean") /\ Published(n)

\* The target is confirmed to be n's; then temp file, proof and marker go.
Clean(n) ==
  /\ rec.pc = "clean"
  /\ \/ /\ Names("tmp", n) \/ Names("copy", n)
        /\ tmps' = [tmps EXCEPT ![n] = NoFile]
        /\ Proceed("proof") /\ UNCHANGED <<todo, up>>
     \/ /\ ~Names("tmp", n) /\ ~Names("copy", n)
        /\ Pass(n) /\ tmps' = tmps
  /\ UNCHANGED <<target, proofs, markers>>

\* Only the file that was judged is removed.
DiscardTmp(n) ==
  /\ rec.pc = "discard"
  /\ \/ /\ tmps[n] = rec.bytes
        /\ tmps' = [tmps EXCEPT ![n] = NoFile]
        /\ Proceed("proof") /\ UNCHANGED <<todo, up>>
     \/ /\ tmps[n] # rec.bytes
        /\ Pass(n) /\ tmps' = tmps
  /\ UNCHANGED <<target, proofs, markers>>

CleanProof(n) ==
  /\ rec.pc = "proof"
  /\ proofs' = [proofs EXCEPT ![n] = "none"]
  /\ Proceed("marker") /\ UNCHANGED <<todo, up>>
  /\ UNCHANGED <<target, tmps, markers>>

CleanMarker(n) ==
  /\ rec.pc = "marker"
  /\ markers' = [markers EXCEPT ![n] = "none"]
  /\ Pass(n)
  /\ UNCHANGED <<target, tmps, proofs>>

\* A later file operation fails.  Beside a durable marker and without a whole copy
\* startup stops; otherwise the temp file is left, or the sidecar is.
RecoveryFails(n) ==
  /\ rec.pc # "scan"
  /\ Failure
  /\ \/ /\ \/ rec.pc \in {"truncate", "recopy"}
           \/ rec.pc \in {"promote", "mark", "create", "own", "copy"} /\ markers[n] # "none"
        /\ Block
     \/ /\ \/ rec.pc = "promote" /\ markers[n] = "none"
           \/ rec.pc \in {"complete", "clean", "discard", "marker"}
        /\ Pass(n)
     \/ rec.pc = "proof" /\ Proceed("marker") /\ UNCHANGED <<todo, up>>
  /\ UNCHANGED store

Recovered ==
  /\ up = "recovering" /\ rec.pc = "scan" /\ todo = {}
  /\ up' = "running"
  /\ UNCHANGED <<fixed, store, write, rec, todo, unread, counts, ghost>>

RecoveryStep(n) ==
  /\ up = "recovering" /\ rec.gen = n
  /\ \/ /\ (Publish(n) \/ Copied(n) \/ MarkComplete(n))
        /\ UNCHANGED counts
     \/ /\ \/ MarkTmp(n) \/ MarkSource(n) \/ CreateCopy(n) \/ OwnCopy(n)
           \/ Truncate(n) \/ Copy(n)
           \/ Clean(n) \/ DiscardTmp(n) \/ CleanProof(n) \/ CleanMarker(n)
        /\ UNCHANGED <<counts, ghost>>
     \/ RecoveryFails(n) /\ UNCHANGED ghost
  /\ UNCHANGED <<fixed, write, unread>>

-----------------------------------------------------------------------------
CrashServer ==
  /\ up \in {"recovering", "running"} /\ crashes < MaxCrashes
  /\ crashes' = crashes + 1
  /\ up' = "down" /\ rec' = At("scan", 0) /\ todo' = {}
  /\ write' = [write EXCEPT !["server"] = Done]
  /\ UNCHANGED <<fixed, store, unread, begun, failures, ghost>>

CrashCli ==
  /\ ~Idle("cli") /\ crashes < MaxCrashes
  /\ crashes' = crashes + 1
  /\ write' = [write EXCEPT !["cli"] = Done]
  /\ UNCHANGED <<fixed, store, up, rec, todo, unread, begun, failures, ghost>>

FileInit ==
  /\ kind \in Kinds
  /\ links \in BOOLEAN
  /\ target = NoFile
  /\ tmps = [n \in FileGenerations |-> NoFile]
  /\ proofs = [n \in FileGenerations |-> "none"]
  /\ markers = [n \in FileGenerations |-> "none"]
  /\ write = [a \in Actors |-> Done]
  /\ up = "down" /\ rec = At("scan", 0) /\ todo = {} /\ unread = {}
  /\ begun = 0 /\ crashes = 0 /\ failures = 0
  /\ committed = 0 /\ meddled = FALSE

FileNext ==
  \/ \E a \in Actors :
       BeginWrite(a) \/ FillTmp(a) \/ Prove(a) \/ Rename(a) \/ Tidy(a)
         \/ WriteFails(a) \/ TakeBack(a)
  \/ Boot \/ Recovered \/ CrashServer \/ CrashCli
  \/ \E n \in FileGenerations : Scan(n) \/ ScanFails(n) \/ SweepProof(n) \/ RecoveryStep(n)

FileSpec == FileInit /\ [][FileNext]_fileVars

-----------------------------------------------------------------------------
\* Every variable keeps its type; no file is longer than its generation.
FileTypeOK ==
  /\ kind \in Kinds /\ links \in BOOLEAN
  /\ target \in [inode : {"tmp", "copy"}, gen : FileGenerations, bytes : 0 .. Whole]
       \cup {NoFile}
  /\ tmps \in [FileGenerations -> (0 .. Whole) \cup {NoFile}]
  /\ proofs \in [FileGenerations -> {"none", "torn", "whole"}]
  /\ markers \in [FileGenerations -> {"none", "torn", "source", "copying", "complete"}]
  /\ write \in [Actors ->
       [pc : {"idle", "filling", "proving", "renaming", "tidying", "failing"},
        gen : 0 .. MaxWrites]]
  /\ up \in {"down", "recovering", "running", "blocked"}
  /\ todo \subseteq FileGenerations /\ unread \subseteq FileGenerations
  /\ committed \in 0 .. MaxWrites /\ meddled \in BOOLEAN

\* The server never reads a partial document: once it runs, the file is whole
\* or not there at all, whatever was killed where, unless another writer fell
\* into a promotion, or the start could not read the temp file that a copy cut
\* short by a kill was made of.
TargetIsWhole ==
  up = "running" /\ ~meddled =>
    target = NoFile \/ WholeFile(target) \/ target.gen \in unread

\* "Startup must stop before readers can hydrate a partial document": the same
\* without the second exception.
StopsBeforePartial ==
  up = "running" /\ ~meddled => target = NoFile \/ WholeFile(target)

\* What was published stays, whoever meddles: no recovery replaces or removes a
\* generation that a write or an earlier recovery has made visible.  (A copy that
\* is resumed once more is cut short, and TargetIsWhole keeps the server from
\* running before it is whole.)
CommittedStays ==
  committed # 0 => target # NoFile /\ target.gen = committed

\* The document a reader finds is whole, and the one last published.
DocumentIsSafe == FileTypeOK /\ TargetIsWhole /\ CommittedStays

\* Startup is stopped only for a document that is not whole, an operation that
\* failed, or the marker of another generation that an earlier start left beside
\* it: an interrupted promotion never blocks the document it has completed,
\* unless a writer fell into it.
BlockedForCause ==
  [][ up # "blocked" /\ up' = "blocked" =>
        \/ ~WholeFile(target) \/ failures' > failures \/ meddled
        \/ \E m \in FileGenerations : m # target.gen /\ markers[m] # "none" ]_fileVars

Orphan(n) == tmps[n] # NoFile /\ \A a \in Actors : write[a].gen # n
Provable(n) == tmps[n] = Whole /\ (NeedsProof => proofs[n] = "whole")

\* Recovery leaves no finished write behind: it passes over a temp file that
\* nobody writes only when the file is there, or what was written cannot be told
\* to be whole, or grew since it was judged, or an operation failed.
RecoveryIsComplete ==
  [][ \A n \in todo \ todo' :
        /\ up' = "recovering" /\ failures' = failures
        /\ target' = NoFile /\ Orphan(n)'
        /\ (rec.pc = "scan" \/ tmps[n] = rec.bytes)
        => ~Provable(n)' ]_fileVars
=============================================================================
