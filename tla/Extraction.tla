----------------------------- MODULE Extraction -----------------------------
(***************************************************************************)
(* The extraction launcher of native/extractor: it turns the Navisworks    *)
(* file at its input path into a SQLite cache named by the SHA-256 of that *)
(* file.  Each launcher is a process; several may work on one input file   *)
(* and one cache directory, and each starts a Navisworks process (its      *)
(* child) that outlives it if it is killed.  They share, for each hash,    *)
(* three files: the cache, the partial cache and the record stream.        *)
(*                                                                         *)
(* One action is one stretch of code between two points where another      *)
(* process can change what it goes on to use.  The file system is that of  *)
(* Windows: a file SQLite has open can be neither deleted nor renamed, and *)
(* a stream can be deleted under the plugin that writes it.                *)
(***************************************************************************)
EXTENDS Naturals, FiniteSets

CONSTANTS
  Launchers,    \* launcher processes; one may be started again when it ends
  Contents,     \* what the input file may hold; stands for its SHA-256 too
  None,
  MaxStarts,    \* bound on the number of launches
  MaxEdits,     \* bound on the number of edits of the input file
  MaxLosses     \* bound on the number of power losses

ASSUME ExtractionAssumption ==
  /\ None \notin Contents \cup Launchers
  /\ Contents # {}
  /\ MaxStarts \in Nat /\ MaxEdits \in Nat /\ MaxLosses \in Nat

VARIABLES
  (* files *)
  nwd,        \* the input file
  final,      \* [Contents -> cache]: <sha>.sqlite
  partial,    \* [Contents -> cache]: <sha>.sqlite.partial
  stream,     \* [Contents -> stream]: <sha>.ndjson.tmp
  (* processes *)
  run,        \* [Launchers -> Run]: the state of ExtractionRunner.Run
  child,      \* [Launchers -> state of the Navisworks process it started]
  (* bounds, and for the properties only *)
  starts, edits, losses,
  overlapped, \* two launchers have been at work at once
  crashed     \* a launcher has been killed, or power was lost

files == <<final, partial, stream>>
bounds == <<starts, edits, losses, overlapped, crashed>>
vars  == <<nwd, files, run, child, bounds>>

(* A cache holds all the objects its stream declared (whole) or not, and   *)
(* has its object count (counted) or not; flushed says its bytes are on    *)
(* the disk, holder which launcher has it open.                            *)
Caches  == [of : Contents, whole : BOOLEAN, counted : BOOLEAN, flushed : BOOLEAN,
            holder : Launchers \cup {None}]
(* A stream ends without a terminator, or with one that says ok or failed. *)
Streams == [of : Contents, end : {"none", "ok", "failed"}, whole : BOOLEAN]
Steps   == {"idle", "hashing", "checking", "discarding", "launching", "running", "creating",
            "converting", "flushing", "publishing", "cleaning"}
Results == {"none", "ok", "cache-hit", "failed", "cancelled"}
Runs    == [step : Steps, key : Contents \cup {None}, read : Streams \cup {None},
            keepStream : BOOLEAN, cancelRequested : BOOLEAN, result : Results]
Ended(r) == [step |-> "idle", key |-> None, read |-> None, keepStream |-> FALSE,
             cancelRequested |-> FALSE, result |-> r]

Init ==
  /\ nwd \in Contents
  /\ final = [c \in Contents |-> None]
  /\ partial = [c \in Contents |-> None]
  /\ stream = [c \in Contents |-> None]
  /\ run = [l \in Launchers |-> Ended("none")]
  /\ child = [l \in Launchers |-> "none"]
  /\ starts = 0 /\ edits = 0 /\ losses = 0
  /\ overlapped = FALSE
  /\ crashed = FALSE

-----------------------------------------------------------------------------
At(l, s)    == run[l].step = s
Key(l)      == run[l].key
Cancelled(l) == run[l].cancelRequested
Working(l)  == run[l].step # "idle"

Goto(l, s)  == run' = [run EXCEPT ![l].step = s]
(* The terminal line is written, the finally block is left to run.         *)
Report(l, r, keep) ==
  run' = [run EXCEPT ![l].step = "cleaning", ![l].result = r, ![l].read = None,
                     ![l].keepStream = keep]

(* CacheInspector.Validate: the schema version, and the count of the rows  *)
(* against the declared one.                                               *)
Valid(c) == c # None /\ c.counted

HeldByOther(f, l) == f # None /\ f.holder \notin {None, l}
Junk(l)    == [of |-> Key(l), whole |-> FALSE, counted |-> FALSE, flushed |-> FALSE, holder |-> l]
(* What is at the path when l has let go of it.                            *)
Released(l) ==
  [c \in Contents |-> IF partial[c] # None /\ partial[c].holder = l
                        THEN [partial[c] EXCEPT !.holder = None] ELSE partial[c]]

(* DeleteIfExists of the partial cache: best effort.                       *)
DeletePartial(l) ==
  partial' = IF Key(l) = None \/ HeldByOther(partial[Key(l)], l) THEN partial
             ELSE [partial EXCEPT ![Key(l)] = None]

(* DeleteIfExists of the stream: always possible; the plugins that write   *)
(* it go on writing a file that has lost its name.                         *)
DeleteStream(l) ==
  /\ stream' = [stream EXCEPT ![Key(l)] = None]
  /\ child' = [m \in Launchers |->
                 IF m = l /\ At(l, "launching") THEN "starting"
                 ELSE IF Key(m) = Key(l) /\ child[m] = "writing" THEN "detached"
                 ELSE child[m]]

-----------------------------------------------------------------------------
(* The input file is edited, or another one is saved over it.              *)
Edit(c) ==
  /\ edits < MaxEdits
  /\ nwd # c
  /\ nwd' = c
  /\ edits' = edits + 1
  /\ UNCHANGED <<files, run, child, starts, losses, overlapped, crashed>>

(* A launcher is started; a slot is free once its last child has gone.     *)
Start(l) ==
  /\ At(l, "idle")
  /\ child[l] = "none"
  /\ starts < MaxStarts
  /\ starts' = starts + 1
  /\ run' = [run EXCEPT ![l] = [Ended("none") EXCEPT !.step = "hashing"]]
  /\ overlapped' = (overlapped \/ \E m \in Launchers : Working(m))
  /\ UNCHANGED <<nwd, files, child, edits, losses, crashed>>

(* The cancel listener reads its line; from then on the flag stays set.    *)
Cancel(l) ==
  /\ Working(l)
  /\ ~Cancelled(l)
  /\ run' = [run EXCEPT ![l].cancelRequested = TRUE]
  /\ UNCHANGED <<nwd, files, child, bounds>>

(* Faulty: the paths are made before there is a hash.                      *)
HashBeforeReading(l) ==
  /\ At(l, "hashing")
  /\ ~Cancelled(l)
  /\ Goto(l, "checking")
  /\ UNCHANGED <<nwd, files, child, bounds>>

(* The input is hashed while nobody can write it, and the three paths      *)
(* follow from the hash.                                                   *)
Hash(l) ==
  /\ At(l, "hashing")
  /\ ~Cancelled(l)
  /\ run' = [run EXCEPT ![l].step = "checking", ![l].key = nwd]
  /\ UNCHANGED <<nwd, files, child, bounds>>

(* The input is missing or locked, or the run is cancelled so far.         *)
HashFails(l) ==
  /\ At(l, "hashing")
  /\ \/ Report(l, "failed", FALSE)
     \/ Cancelled(l) /\ Report(l, "cancelled", FALSE)
  /\ UNCHANGED <<nwd, files, child, bounds>>

(* Faulty: an existing cache is never taken.                               *)
CheckCacheAlwaysStale(l) ==
  /\ At(l, "checking")
  /\ Goto(l, "discarding")
  /\ UNCHANGED <<nwd, files, child, bounds>>

CheckCache(l) ==
  /\ At(l, "checking")
  /\ IF Valid(final[Key(l)]) THEN Report(l, "cache-hit", FALSE) ELSE Goto(l, "discarding")
  /\ UNCHANGED <<nwd, files, child, bounds>>

(* What was not valid when it was looked at is deleted if it exists now.   *)
DiscardStaleCache(l) ==
  /\ At(l, "discarding")
  /\ final' = [final EXCEPT ![Key(l)] = None]
  /\ Goto(l, "launching")
  /\ UNCHANGED <<nwd, partial, stream, child, bounds>>

(* The temporary files go, and Navisworks is started.                      *)
Launch(l) ==
  /\ At(l, "launching")
  /\ ~Cancelled(l)
  /\ DeletePartial(l)
  /\ DeleteStream(l)
  /\ Goto(l, "running")
  /\ UNCHANGED <<nwd, final, bounds>>

(* No Navisworks on this machine, or cancelled before it was started.      *)
LaunchFails(l) ==
  /\ At(l, "launching")
  /\ \/ Report(l, "failed", FALSE)
     \/ Cancelled(l) /\ Report(l, "cancelled", FALSE)
  /\ UNCHANGED <<nwd, files, child, bounds>>

-----------------------------------------------------------------------------
(* The plugin creates the stream, or truncates the one it finds, and walks *)
(* the file that Navisworks has loaded.                                    *)
ChildOpens(l) ==
  /\ child[l] = "starting"
  /\ child' = [child EXCEPT ![l] = "writing"]
  /\ stream' = [stream EXCEPT ![Key(l)] = [of |-> nwd, end |-> "none", whole |-> TRUE]]
  /\ UNCHANGED <<nwd, final, partial, run, bounds>>

(* The plugin ends: it says ok or failed, or dies and says nothing.  Two   *)
(* plugins on one stream write at offsets of their own, and what comes of  *)
(* it may be the walk of one of them or not.  A detached plugin's stream   *)
(* is gone with it.                                                        *)
ChildEnds(l, end) ==
  /\ child[l] = "writing"
  /\ child' = [child EXCEPT ![l] = "none"]
  /\ \E w \in IF \E m \in Launchers \ {l} : child[m] = "writing" /\ Key(m) = Key(l)
               THEN BOOLEAN ELSE {TRUE} :
       stream' = [stream EXCEPT ![Key(l)].end = end, ![Key(l)].whole = @ /\ w]
  /\ UNCHANGED <<nwd, final, partial, run, bounds>>

ChildGone(l) ==
  /\ child[l] \in {"starting", "detached"}
  /\ child' = [child EXCEPT ![l] = "none"]
  /\ UNCHANGED <<nwd, files, run, bounds>>

(* Faulty: the wait loop waits for the exit before it looks at the flag.   *)
KillChildAfterExit(l) ==
  /\ At(l, "running")
  /\ Cancelled(l)
  /\ child[l] = "none"
  /\ Report(l, "cancelled", FALSE)
  /\ UNCHANGED <<nwd, files, child, bounds>>

(* The wait loop polls the cancel flag and kills Navisworks.               *)
KillChild(l) ==
  /\ At(l, "running")
  /\ Cancelled(l)
  /\ child[l] # "none"
  /\ child' = [child EXCEPT ![l] = "none"]
  /\ Report(l, "cancelled", FALSE)
  /\ UNCHANGED <<nwd, files, bounds>>

(* Navisworks is gone; the flag and the stream say how it went.            *)
ChildExited(l) ==
  /\ At(l, "running")
  /\ child[l] = "none"
  /\ \/ Cancelled(l) /\ Report(l, "cancelled", FALSE)
     \/ ~Cancelled(l) /\ stream[Key(l)] = None /\ Report(l, "failed", FALSE)
     \/ ~Cancelled(l) /\ stream[Key(l)] # None /\ Goto(l, "creating")
  /\ UNCHANGED <<nwd, files, child, bounds>>

-----------------------------------------------------------------------------
(* CacheWriter.Create deletes the partial cache it finds and opens its     *)
(* own; then the stream is opened, if it is still there.                   *)
OpenConversion(l) ==
  /\ At(l, "creating")
  /\ ~HeldByOther(partial[Key(l)], l)
  /\ stream[Key(l)] # None
  /\ partial' = [partial EXCEPT ![Key(l)] = Junk(l)]
  /\ run' = [run EXCEPT ![l].step = "converting", ![l].read = stream[Key(l)]]
  /\ UNCHANGED <<nwd, final, stream, child, bounds>>

OpenConversionFails(l) ==
  /\ At(l, "creating")
  /\ HeldByOther(partial[Key(l)], l) \/ stream[Key(l)] = None
  /\ partial' = IF HeldByOther(partial[Key(l)], l) THEN partial
                ELSE [partial EXCEPT ![Key(l)] = [Junk(l) EXCEPT !.holder = None]]
  /\ Report(l, "failed", TRUE)
  /\ UNCHANGED <<nwd, final, stream, child, bounds>>

(* Faulty: a stream without terminator is as good as one with.             *)
ConvertStreamOpenEnded(l) ==
  /\ At(l, "converting")
  /\ run[l].read.end # "failed"
  /\ partial' = [partial EXCEPT ![Key(l)] =
       [of |-> run[l].read.of, whole |-> run[l].read.end = "ok" /\ run[l].read.whole,
        counted |-> TRUE, flushed |-> FALSE, holder |-> None]]
  /\ run' = [run EXCEPT ![l].step = "flushing", ![l].read = None]
  /\ UNCHANGED <<nwd, final, stream, child, bounds>>

(* Every record is read, the terminator says ok, the rows are as many as   *)
(* it declares: the count is written, the transaction committed and the    *)
(* connection closed.                                                      *)
ConvertStream(l) ==
  /\ At(l, "converting")
  /\ run[l].read.end = "ok" /\ run[l].read.whole
  /\ partial' = [partial EXCEPT ![Key(l)] =
       [of |-> run[l].read.of, whole |-> TRUE, counted |-> TRUE, flushed |-> FALSE,
        holder |-> None]]
  /\ run' = [run EXCEPT ![l].step = "flushing", ![l].read = None]
  /\ UNCHANGED <<nwd, final, stream, child, bounds>>

(* Truncated, malformed, without terminator, failed, miscounted; or the    *)
(* flag was seen at a multiple of ConvertProgressInterval.                 *)
ConversionFails(l) ==
  /\ At(l, "converting")
  /\ partial' = Released(l)
  /\ \/ Report(l, "failed", TRUE)
     \/ Cancelled(l) /\ Report(l, "cancelled", FALSE)
  /\ UNCHANGED <<nwd, final, stream, child, bounds>>

(* FlushToDisk opens whatever is at the path, for itself alone.            *)
FlushToDisk(l) ==
  /\ At(l, "flushing")
  /\ partial[Key(l)] # None /\ ~HeldByOther(partial[Key(l)], l)
  /\ partial' = [partial EXCEPT ![Key(l)].flushed = TRUE]
  /\ Goto(l, "publishing")
  /\ UNCHANGED <<nwd, final, stream, child, bounds>>

(* The rename, unless a cache is there by now: then that one is kept.      *)
Publish(l) ==
  /\ At(l, "publishing")
  /\ ~HeldByOther(partial[Key(l)], l)
  /\ \/ /\ final[Key(l)] # None
        /\ UNCHANGED final
     \/ /\ final[Key(l)] = None /\ partial[Key(l)] # None
        /\ final' = [final EXCEPT ![Key(l)] = partial[Key(l)]]
  /\ partial' = [partial EXCEPT ![Key(l)] = None]
  /\ Report(l, "ok", FALSE)
  /\ UNCHANGED <<nwd, stream, child, bounds>>

(* An exception: a file that is not there or is held, a full disk.         *)
Throws(l) ==
  /\ run[l].step \in {"discarding", "launching", "flushing", "publishing"}
  /\ Report(l, "failed", TRUE)
  /\ UNCHANGED <<nwd, files, child, bounds>>

(* Faulty: a failed run keeps its partial cache along with the stream.     *)
CleanUpUnlessKept(l) ==
  /\ At(l, "cleaning")
  /\ IF run[l].keepStream THEN UNCHANGED partial ELSE DeletePartial(l)
  /\ IF run[l].keepStream \/ Key(l) = None THEN UNCHANGED <<stream, child>> ELSE DeleteStream(l)
  /\ run' = [run EXCEPT ![l] = [Ended(run[l].result) EXCEPT !.key = Key(l)]]
  /\ UNCHANGED <<nwd, final, bounds>>

(* The finally block.                                                      *)
CleanUp(l) ==
  /\ At(l, "cleaning")
  /\ DeletePartial(l)
  /\ IF run[l].keepStream \/ Key(l) = None THEN UNCHANGED <<stream, child>> ELSE DeleteStream(l)
  /\ run' = [run EXCEPT ![l] = [Ended(run[l].result) EXCEPT !.key = Key(l)]]
  /\ UNCHANGED <<nwd, final, bounds>>

(* The launcher is killed: its handles are closed, its child lives on.     *)
Crash(l) ==
  /\ Working(l)
  /\ partial' = Released(l)
  /\ run' = [run EXCEPT ![l] = [Ended("none") EXCEPT !.key = Key(l)]]
  /\ crashed' = TRUE
  /\ UNCHANGED <<nwd, final, stream, child, starts, edits, losses, overlapped>>

(* Power is lost: nobody is left, and bytes that were not flushed may not  *)
(* have reached the disk.  Renames and deletions have.                     *)
AfterLoss(f, torn) ==
  IF f = None THEN None
  ELSE [f EXCEPT !.holder = None, !.whole = @ /\ (f.flushed \/ ~torn), !.flushed = TRUE]

PowerLoss(torn) ==
  /\ losses < MaxLosses
  /\ losses' = losses + 1
  /\ crashed' = TRUE
  /\ final' = [c \in Contents |-> AfterLoss(final[c], torn)]
  /\ partial' = [c \in Contents |-> AfterLoss(partial[c], torn)]
  /\ stream' = [c \in Contents |->
       IF stream[c] = None THEN None ELSE [stream[c] EXCEPT !.whole = @ /\ ~torn]]
  /\ run' = [l \in Launchers |-> Ended("none")]
  /\ child' = [l \in Launchers |-> "none"]
  /\ UNCHANGED <<nwd, starts, edits, overlapped>>

-----------------------------------------------------------------------------
(* What a launcher does of its own accord.                                 *)
Step(l) ==
  \/ Hash(l) \/ HashFails(l)
  \/ CheckCache(l) \/ DiscardStaleCache(l)
  \/ Launch(l) \/ LaunchFails(l)
  \/ KillChild(l) \/ ChildExited(l)
  \/ OpenConversion(l) \/ OpenConversionFails(l)
  \/ ConvertStream(l) \/ ConversionFails(l)
  \/ FlushToDisk(l) \/ Publish(l) \/ Throws(l)
  \/ CleanUp(l)

Child(l) ==
  \/ ChildOpens(l)
  \/ \E end \in {"none", "ok", "failed"} : ChildEnds(l, end)
  \/ ChildGone(l)

Next ==
  \/ \E c \in Contents : Edit(c)
  \/ \E l \in Launchers : Start(l) \/ Cancel(l) \/ Crash(l) \/ Step(l) \/ Child(l)
  \/ \E torn \in BOOLEAN : PowerLoss(torn)

(* A launcher that is alive goes on; nothing is promised for Navisworks,   *)
(* which may hang, nor for the user.                                       *)
Fairness == \A l \in Launchers : WF_vars(Step(l))

Spec == Init /\ [][Next]_vars /\ Fairness

-----------------------------------------------------------------------------
TypeOK ==
  /\ nwd \in Contents
  /\ final \in [Contents -> Caches \cup {None}]
  /\ partial \in [Contents -> Caches \cup {None}]
  /\ stream \in [Contents -> Streams \cup {None}]
  /\ run \in [Launchers -> Runs]
  /\ \A l \in Launchers :
       /\ run[l].step \notin {"idle", "hashing", "cleaning"} => Key(l) # None
       /\ At(l, "converting") <=> run[l].read # None
  /\ child \in [Launchers -> {"none", "starting", "writing", "detached"}]
  /\ starts \in 0 .. MaxStarts /\ edits \in 0 .. MaxEdits /\ losses \in 0 .. MaxLosses
  /\ overlapped \in BOOLEAN
  /\ crashed \in BOOLEAN

(* A cache that CacheInspector takes for valid holds every object of the   *)
(* walk it was made from: a truncated stream, a killed plugin or launcher, *)
(* a plugin left over from another launcher and a loss of power never      *)
(* leave a valid-looking one.  Overlapping launchers are excepted only     *)
(* when power is lost as well.                                             *)
ValidCacheIsWhole ==
  ~(overlapped /\ losses > 0) => \A c \in Contents : Valid(final[c]) => final[c].whole

(* A partial cache at rest belongs to a launcher at work, which will       *)
(* delete or rename it, unless one was killed: whoever of two overlapping  *)
(* launchers ends last leaves none behind, though each may fail to delete  *)
(* what the other holds.                                                   *)
PartialHasAnOwner ==
  ~crashed => \A c \in Contents :
    partial[c] # None => \E l \in Launchers : Working(l) /\ Key(l) = c

(* The cache a launcher has reported, made or found, is there and valid    *)
(* for as long as no two launchers overlap and power lasts.                *)
ReportedCacheStays ==
  ~overlapped => \A l \in Launchers :
    run[l].result \in {"ok", "cache-hit"} => Valid(final[Key(l)])

(* A launcher told to cancel ends, even if Navisworks hangs.               *)
CancelEnds == \A l \in Launchers : (Working(l) /\ Cancelled(l)) ~> ~Working(l)

(* What the comment in CacheWriter.Commit says of concurrent runs: an      *)
(* existing cache is kept.                                                 *)
ReportedCacheKept ==
  \A l \in Launchers : run[l].result \in {"ok", "cache-hit"} => final[Key(l)] # None

(* What "content-addressed" says: the cache under a hash was extracted     *)
(* from the file with that hash.                                           *)
CacheIsOfItsName ==
  \A c \in Contents : final[c] # None => final[c].of = c
=============================================================================
