-------------------------- MODULE ExtractionProofs --------------------------
(***************************************************************************)
(* What Extraction promises, for any number of launchers, contents and     *)
(* launches.                                                               *)
(***************************************************************************)
EXTENDS Extraction, TLAPS

(* A launcher's record that fits its step.                                 *)
Fits(r) ==
  /\ r \in Runs
  /\ r.step \notin {"idle", "hashing", "cleaning"} => r.key # None
  /\ r.step = "converting" <=> r.read # None

RunsFit == run \in [Launchers -> Runs] /\ \A l \in Launchers : Fits(run[l])

(* TypeOK without the launchers' records.                                  *)
RestTyped ==
  /\ nwd \in Contents
  /\ final \in [Contents -> Caches \cup {None}]
  /\ partial \in [Contents -> Caches \cup {None}]
  /\ stream \in [Contents -> Streams \cup {None}]
  /\ child \in [Launchers -> {"none", "starting", "writing", "detached"}]
  /\ starts \in 0 .. MaxStarts /\ edits \in 0 .. MaxEdits /\ losses \in 0 .. MaxLosses
  /\ overlapped \in BOOLEAN
  /\ crashed \in BOOLEAN

LEMMA HolderType ==
  ASSUME RestTyped, NEW c \in Contents, partial[c] # None, partial[c].holder # None
  PROVE  partial[c].holder \in Launchers
BY DEF RestTyped, Caches

LEMMA TypesSplit == TypeOK <=> RunsFit /\ RestTyped
BY DEF TypeOK, RunsFit, RestTyped, Fits, At, Key

-----------------------------------------------------------------------------
(* One launcher's record changes, the others stay.                         *)
Changes(l, r) ==
  /\ run' \in [Launchers -> Runs]
  /\ run'[l] = r
  /\ \A m \in Launchers \ {l} : run'[m] = run[m]

LEMMA Changed ==
  ASSUME RunsFit, NEW l \in Launchers, NEW r, Fits(r), run' = [run EXCEPT ![l] = r]
  PROVE  Changes(l, r) /\ RunsFit'
BY DEF RunsFit, Fits, Changes

Moved(l, s) == [run[l] EXCEPT !.step = s]

LEMMA GotoFacts ==
  ASSUME RunsFit, NEW l \in Launchers, NEW s \in Steps \ {"idle", "converting"}, Goto(l, s),
         Key(l) # None, run[l].step # "converting"
  PROVE  Changes(l, Moved(l, s)) /\ RunsFit'
<1>1. Fits(Moved(l, s))
  BY DEF RunsFit, Fits, Moved, Runs, Key
<1>2. run' = [run EXCEPT ![l] = Moved(l, s)]
  BY DEF RunsFit, Goto, Moved
<1> QED BY <1>1, <1>2, Changed

Reported(l, r, keep) ==
  [run[l] EXCEPT !.step = "cleaning", !.result = r, !.read = None, !.keepStream = keep]

LEMMA ReportFacts ==
  ASSUME RunsFit, NEW l \in Launchers, NEW r \in Results, NEW keep \in BOOLEAN, Report(l, r, keep)
  PROVE  Changes(l, Reported(l, r, keep)) /\ RunsFit'
<1>1. Fits(Reported(l, r, keep))
  BY DEF RunsFit, Fits, Reported, Runs, Steps
<1>2. run' = [run EXCEPT ![l] = Reported(l, r, keep)]
  BY DEF RunsFit, Report, Reported
<1> QED BY <1>1, <1>2, Changed

-----------------------------------------------------------------------------
(***************************************************************************)
(* The inductive invariant.  A file SQLite has open belongs to a launcher  *)
(* that converts; a counted cache is whole, as long as power lasts; and a  *)
(* launcher that is alone, now and ever, publishes only what it has made   *)
(* and flushed itself, so that not even a loss of power tears it.          *)
(***************************************************************************)
HolderConverts ==
  /\ \A c \in Contents : partial[c] # None /\ partial[c].holder # None =>
       At(partial[c].holder, "converting") /\ Key(partial[c].holder) = c
  /\ \A c \in Contents : final[c] # None => final[c].holder = None
  /\ \A l \in Launchers : At(l, "hashing") => Key(l) = None

(* A plugin was started under a hash, and what it writes is there.         *)
ChildFits ==
  \A l \in Launchers : /\ child[l] # "none" => Key(l) # None
                       /\ child[l] = "writing" => stream[Key(l)] \in Streams

CountedIsWhole(f) == f # None /\ f.counted => f.whole

WholeWithoutLoss ==
  losses = 0 => \A c \in Contents : CountedIsWhole(final[c]) /\ CountedIsWhole(partial[c])

Alone ==
  /\ \A l, m \in Launchers : Working(l) /\ Working(m) => l = m
  /\ \A l \in Launchers :
       /\ run[l].step \in {"flushing", "publishing"} /\ partial[Key(l)] # None
            => partial[Key(l)].whole
       /\ At(l, "publishing") /\ partial[Key(l)] # None => partial[Key(l)].flushed
  /\ \A c \in Contents : final[c] # None => final[c].whole /\ final[c].flushed

Safe == HolderConverts /\ PartialHasAnOwner /\ WholeWithoutLoss /\ (~overlapped => Alone)
IInv == RunsFit /\ RestTyped /\ ChildFits /\ Safe

(* A working launcher moves on and, if anything, deletes.                  *)
LEMMA QuietKeepsSafe ==
  ASSUME IInv, NEW l \in Launchers, NEW r, Changes(l, r),
         Working(l), run[l].step # "converting",
         r.step \notin {"idle", "hashing", "flushing", "publishing"},
         r.key = run[l].key \/ run[l].key = None,
         \A c \in Contents : final'[c] \in {final[c], None},
         \A c \in Contents : partial'[c] \in {partial[c], None},
         UNCHANGED <<losses, overlapped, crashed>>
  PROVE  Safe'
<1>1. HolderConverts'
  <2>1. ASSUME NEW c \in Contents, partial'[c] # None, partial'[c].holder # None
        PROVE  (At(partial[c].holder, "converting") /\ Key(partial[c].holder) = c)'
    <3>1. partial'[c] = partial[c]
      BY <2>1
    <3>2. partial[c].holder \in Launchers
      BY <2>1, <3>1, HolderType DEF IInv
    <3> QED BY <2>1, <3>1, <3>2 DEF IInv, Safe, HolderConverts, Changes, At, Key
  <2>2. ASSUME NEW m \in Launchers, At(m, "hashing")' PROVE (Key(m) = None)'
    BY <2>2 DEF IInv, Safe, HolderConverts, Changes, At, Key
  <2>3. ASSUME NEW c \in Contents, final'[c] # None PROVE final'[c].holder = None
    BY <2>3 DEF IInv, Safe, HolderConverts
  <2> QED BY <2>1, <2>2, <2>3 DEF HolderConverts
<1>2. PartialHasAnOwner'
  <2> SUFFICES ASSUME ~crashed', NEW c \in Contents, partial'[c] # None
               PROVE  \E m \in Launchers : (Working(m) /\ Key(m) = c)'
    BY DEF PartialHasAnOwner
  <2>1. PICK m \in Launchers : Working(m) /\ Key(m) = c
    BY DEF IInv, Safe, PartialHasAnOwner
  <2>2. (Working(m) /\ Key(m) = c)'
    BY <2>1, ExtractionAssumption DEF Changes, Working, Key
  <2> QED BY <2>2
<1>3. WholeWithoutLoss'
  BY DEF IInv, Safe, WholeWithoutLoss, CountedIsWhole
<1>4. ASSUME ~overlapped' PROVE Alone'
  BY <1>4 DEF IInv, Safe, Alone, RunsFit, Fits, Changes, At, Key, Working
<1> QED BY <1>1, <1>2, <1>3, <1>4 DEF Safe

(* ChildFits after a step that leaves the launchers' hashes alone.          *)
ChildFitsYet ==
  \A l \in Launchers : /\ child'[l] # "none" => Key(l) # None
                       /\ child'[l] = "writing" => stream'[Key(l)] \in Streams

(* The three shapes of a step that keeps Safe by the lemma above, or        *)
(* because it touches nothing Safe speaks of.                              *)
LEMMA ReportQuietly ==
  ASSUME IInv, NEW l \in Launchers, NEW r \in Results, NEW keep \in BOOLEAN, Report(l, r, keep),
         Working(l), run[l].step # "converting", RestTyped', ChildFitsYet,
         \A c \in Contents : final'[c] \in {final[c], None},
         \A c \in Contents : partial'[c] \in {partial[c], None},
         UNCHANGED <<losses, overlapped, crashed>>
  PROVE  IInv'
<1> DEFINE r1 == Reported(l, r, keep)
<1>1. Changes(l, r1) /\ RunsFit'
  BY ReportFacts DEF IInv
<1>2. r1.step = "cleaning" /\ r1.key = run[l].key
  BY DEF IInv, RunsFit, Runs, Reported
<1> HIDE DEF r1
<1>3. Safe'
  BY <1>1, <1>2, QuietKeepsSafe
<1>4. ChildFits'
  BY <1>1, <1>2 DEF ChildFits, ChildFitsYet, Changes, Key
<1> QED BY <1>1, <1>3, <1>4 DEF IInv

LEMMA GotoQuietly ==
  ASSUME IInv, NEW l \in Launchers,
         NEW s \in Steps \ {"idle", "hashing", "converting", "flushing", "publishing"}, Goto(l, s),
         Working(l), run[l].step # "converting", Key(l) # None, RestTyped', ChildFitsYet,
         \A c \in Contents : final'[c] \in {final[c], None},
         \A c \in Contents : partial'[c] \in {partial[c], None},
         UNCHANGED <<losses, overlapped, crashed>>
  PROVE  IInv'
<1>1. Changes(l, Moved(l, s)) /\ RunsFit'
  BY GotoFacts DEF IInv
<1>2. Moved(l, s).step = s /\ Moved(l, s).key = run[l].key
  BY DEF IInv, RunsFit, Runs, Moved
<1>3. Safe'
  BY <1>1, <1>2, QuietKeepsSafe
<1>4. ChildFits'
  BY <1>1, <1>2 DEF ChildFits, ChildFitsYet, Changes, Key
<1> QED BY <1>1, <1>3, <1>4 DEF IInv

LEMMA UntouchedKeepsSafe ==
  ASSUME IInv, UNCHANGED <<run, final, partial, losses, overlapped, crashed>>
  PROVE  Safe'
BY DEF IInv, Safe, HolderConverts, PartialHasAnOwner, WholeWithoutLoss, CountedIsWhole, Alone,
       At, Key, Working

LEMMA SameFiles ==
  ASSUME IInv, UNCHANGED <<nwd, files, child, bounds>>
  PROVE  /\ RestTyped' /\ ChildFitsYet
         /\ \A c \in Contents : final'[c] \in {final[c], None}
         /\ \A c \in Contents : partial'[c] \in {partial[c], None}
         /\ UNCHANGED <<losses, overlapped, crashed>>
BY DEF IInv, RestTyped, ChildFits, ChildFitsYet, files, bounds

-----------------------------------------------------------------------------
(* What the two deletions leave.                                           *)
LEMMA PartialDeleted ==
  ASSUME IInv, NEW l \in Launchers, DeletePartial(l)
  PROVE  /\ partial' \in [Contents -> Caches \cup {None}]
         /\ \A c \in Contents : partial'[c] \in {partial[c], None}
         /\ Key(l) # None => partial'[Key(l)] = None \/ HeldByOther(partial[Key(l)], l)
BY DEF IInv, RestTyped, RunsFit, Runs, DeletePartial, Key

LEMMA StreamDeleted ==
  ASSUME IInv, NEW l \in Launchers, DeleteStream(l)
  PROVE  /\ stream' \in [Contents -> Streams \cup {None}]
         /\ child' \in [Launchers -> {"none", "starting", "writing", "detached"}]
BY DEF IInv, RestTyped, DeleteStream

-----------------------------------------------------------------------------
(* The actions, one lemma each.                                            *)
LEMMA EditKeeps ==
  ASSUME IInv, NEW c \in Contents, Edit(c)
  PROVE  IInv'
<1>1. RestTyped'
  BY ExtractionAssumption DEF IInv, RestTyped, Edit, files
<1>2. RunsFit'
  BY DEF IInv, RunsFit, Edit
<1>3. Safe'
  BY UntouchedKeepsSafe DEF Edit, files
<1>4. ChildFits'
  BY DEF IInv, ChildFits, Edit, files, Key
<1> QED BY <1>1, <1>2, <1>3, <1>4 DEF IInv

LEMMA HashKeeps ==
  ASSUME IInv, NEW l \in Launchers, Hash(l)
  PROVE  IInv'
<1> DEFINE r1 == [run[l] EXCEPT !.step = "checking", !.key = nwd]
<1>1. RestTyped' /\ (\A c \in Contents : final'[c] \in {final[c], None})
      /\ (\A c \in Contents : partial'[c] \in {partial[c], None})
      /\ UNCHANGED <<losses, overlapped, crashed>>
  BY SameFiles DEF Hash
<1>2. Fits(r1) /\ r1.step = "checking"
  <2>1. run[l] \in Runs /\ run[l].read = None
    BY DEF IInv, RunsFit, Fits, Hash, At
  <2>2. nwd \in Contents /\ nwd # None
    BY ExtractionAssumption DEF IInv, RestTyped
  <2> QED BY <2>1, <2>2 DEF Fits, Runs, Steps
<1>3. run' = [run EXCEPT ![l] = r1]
  BY DEF IInv, RunsFit, Hash
<1>4. Working(l) /\ run[l].step # "converting" /\ run[l].key = None
  BY DEF IInv, Safe, HolderConverts, Hash, At, Key, Working
<1> HIDE DEF r1
<1>5. Changes(l, r1) /\ RunsFit'
  BY <1>2, <1>3, Changed DEF IInv
<1>6. Safe'
  BY <1>1, <1>2, <1>4, <1>5, QuietKeepsSafe
<1>7. ChildFits'
  BY <1>4, <1>5 DEF IInv, ChildFits, Changes, Hash, files, Key
<1> QED BY <1>1, <1>5, <1>6, <1>7 DEF IInv

LEMMA HashFailsKeeps ==
  ASSUME IInv, NEW l \in Launchers, HashFails(l)
  PROVE  IInv'
<1>1. Working(l) /\ run[l].step # "converting"
  BY DEF HashFails, At, Working
<1>2. PICK r \in Results : Report(l, r, FALSE)
  BY DEF HashFails, Results
<1> QED BY <1>1, <1>2, SameFiles, ReportQuietly DEF HashFails

LEMMA CheckCacheKeeps ==
  ASSUME IInv, NEW l \in Launchers, CheckCache(l)
  PROVE  IInv'
<1>1. Working(l) /\ run[l].step # "converting" /\ Key(l) # None
  BY DEF IInv, RunsFit, Fits, CheckCache, At, Working, Key
<1>2. Report(l, "cache-hit", FALSE) \/ Goto(l, "discarding")
  BY DEF CheckCache
<1>3. CASE Report(l, "cache-hit", FALSE)
  BY <1>1, <1>3, SameFiles, ReportQuietly DEF CheckCache, Results
<1>4. CASE Goto(l, "discarding")
  BY <1>1, <1>4, SameFiles, GotoQuietly DEF CheckCache, Steps
<1> QED BY <1>2, <1>3, <1>4

LEMMA DiscardStaleCacheKeeps ==
  ASSUME IInv, NEW l \in Launchers, DiscardStaleCache(l)
  PROVE  IInv'
<1>1. Working(l) /\ run[l].step # "converting" /\ Key(l) # None
  BY DEF IInv, RunsFit, Fits, DiscardStaleCache, At, Working, Key
<1>2. RestTyped' /\ (\A c \in Contents : final'[c] \in {final[c], None})
  BY DEF IInv, RestTyped, DiscardStaleCache, bounds
<1>3. (\A c \in Contents : partial'[c] \in {partial[c], None})
      /\ UNCHANGED <<losses, overlapped, crashed>>
  BY DEF DiscardStaleCache, bounds
<1>4. Goto(l, "launching") /\ "launching" \in Steps
  BY DEF DiscardStaleCache, Steps
<1>5. ChildFitsYet
  BY DEF IInv, ChildFits, ChildFitsYet, DiscardStaleCache
<1> QED BY <1>1, <1>2, <1>3, <1>4, <1>5, GotoQuietly

LEMMA LaunchKeeps ==
  ASSUME IInv, NEW l \in Launchers, Launch(l)
  PROVE  IInv'
<1>1. Working(l) /\ run[l].step # "converting" /\ Key(l) # None
  BY DEF IInv, RunsFit, Fits, Launch, At, Working, Key
<1>2. /\ partial' \in [Contents -> Caches \cup {None}]
      /\ \A c \in Contents : partial'[c] \in {partial[c], None}
  BY PartialDeleted DEF Launch
<1>3. /\ stream' \in [Contents -> Streams \cup {None}]
      /\ child' \in [Launchers -> {"none", "starting", "writing", "detached"}]
  BY StreamDeleted DEF Launch
<1>4. RestTyped' /\ (\A c \in Contents : final'[c] \in {final[c], None})
      /\ UNCHANGED <<losses, overlapped, crashed>>
  BY <1>2, <1>3 DEF IInv, RestTyped, Launch, bounds
<1>5. Goto(l, "running") /\ "running" \in Steps
  BY DEF Launch, Steps
<1>6. ChildFitsYet
  BY <1>1 DEF IInv, RestTyped, ChildFits, ChildFitsYet, Launch, DeleteStream
<1> QED BY <1>1, <1>2, <1>4, <1>5, <1>6, GotoQuietly

LEMMA LaunchFailsKeeps ==
  ASSUME IInv, NEW l \in Launchers, LaunchFails(l)
  PROVE  IInv'
<1>1. Working(l) /\ run[l].step # "converting"
  BY DEF LaunchFails, At, Working
<1>2. PICK r \in Results : Report(l, r, FALSE)
  BY DEF LaunchFails, Results
<1> QED BY <1>1, <1>2, SameFiles, ReportQuietly DEF LaunchFails

LEMMA KillChildKeeps ==
  ASSUME IInv, NEW l \in Launchers, KillChild(l)
  PROVE  IInv'
<1>1. Working(l) /\ run[l].step # "converting"
  BY DEF KillChild, At, Working
<1>2. RestTyped' /\ (\A c \in Contents : final'[c] \in {final[c], None})
      /\ (\A c \in Contents : partial'[c] \in {partial[c], None})
      /\ UNCHANGED <<losses, overlapped, crashed>>
  BY DEF IInv, RestTyped, KillChild, files, bounds
<1>3. Report(l, "cancelled", FALSE) /\ "cancelled" \in Results
  BY DEF KillChild, Results
<1>4. ChildFitsYet
  BY DEF IInv, RestTyped, ChildFits, ChildFitsYet, KillChild, files
<1> QED BY <1>1, <1>2, <1>3, <1>4, ReportQuietly

LEMMA ChildExitedKeeps ==
  ASSUME IInv, NEW l \in Launchers, ChildExited(l)
  PROVE  IInv'
<1>1. Working(l) /\ run[l].step # "converting" /\ Key(l) # None
  BY DEF IInv, RunsFit, Fits, ChildExited, At, Working, Key
<1>2. Report(l, "cancelled", FALSE) \/ Report(l, "failed", FALSE) \/ Goto(l, "creating")
  BY DEF ChildExited
<1>3. "cancelled" \in Results /\ "failed" \in Results /\ "creating" \in Steps
  BY DEF Results, Steps
<1>4. CASE Report(l, "cancelled", FALSE)
  BY <1>1, <1>3, <1>4, SameFiles, ReportQuietly DEF ChildExited
<1>5. CASE Report(l, "failed", FALSE)
  BY <1>1, <1>3, <1>5, SameFiles, ReportQuietly DEF ChildExited
<1>6. CASE Goto(l, "creating")
  BY <1>1, <1>3, <1>6, SameFiles, GotoQuietly DEF ChildExited
<1> QED BY <1>2, <1>4, <1>5, <1>6

LEMMA ThrowsKeeps ==
  ASSUME IInv, NEW l \in Launchers, Throws(l)
  PROVE  IInv'
<1>1. Working(l) /\ run[l].step # "converting" /\ "failed" \in Results
  BY DEF Throws, Working, Results
<1> QED BY <1>1, SameFiles, ReportQuietly DEF Throws

LEMMA ChildKeeps ==
  ASSUME IInv, NEW l \in Launchers, Child(l)
  PROVE  IInv'
<1>1. UNCHANGED <<nwd, final, partial, run, bounds>>
  BY DEF Child, ChildOpens, ChildEnds, ChildGone, files
<1>2. stream' \in [Contents -> Streams \cup {None}]
  <2>1. CASE ChildOpens(l)
    BY <2>1 DEF IInv, RestTyped, ChildOpens, Streams
  <2>2. ASSUME NEW end \in {"none", "ok", "failed"}, ChildEnds(l, end)
        PROVE  stream' \in [Contents -> Streams \cup {None}]
    <3>1. Key(l) \in Contents /\ stream[Key(l)] \in Streams
      BY <2>2 DEF IInv, RestTyped, RunsFit, Runs, ChildFits, ChildEnds, Key
    <3>2. PICK w \in BOOLEAN :
            stream' = [stream EXCEPT ![Key(l)].end = end, ![Key(l)].whole = @ /\ w]
      BY <2>2 DEF ChildEnds
    <3> QED BY <3>1, <3>2 DEF IInv, RestTyped, Streams
  <2>3. CASE ChildGone(l)
    BY <2>3 DEF IInv, RestTyped, ChildGone, files
  <2> QED BY <2>1, <2>2, <2>3 DEF Child
<1>3. child' \in [Launchers -> {"none", "starting", "writing", "detached"}]
  BY DEF IInv, RestTyped, Child, ChildOpens, ChildEnds, ChildGone
<1>4. RestTyped'
  BY <1>1, <1>2, <1>3 DEF IInv, RestTyped, bounds
<1>5. RunsFit'
  BY <1>1 DEF IInv, RunsFit
<1>6. Safe'
  BY <1>1, UntouchedKeepsSafe DEF bounds
<1>7. ChildFits'
  <2>1. \A m \in Launchers : Key(m)' = Key(m)
    BY <1>1 DEF Key
  <2>2. CASE ChildOpens(l)
    <3>1. \A c \in Contents : stream[c] \in Streams => stream'[c] \in Streams
      BY <2>2 DEF IInv, RestTyped, ChildOpens, Streams
    <3>2. Key(l) \in Contents
      BY <2>2 DEF IInv, RunsFit, Runs, ChildFits, ChildOpens, Key
    <3>3. stream'[Key(l)] \in Streams
      BY <2>2, <3>2 DEF IInv, RestTyped, ChildOpens, Streams
    <3> QED BY <2>1, <2>2, <3>1, <3>2, <3>3
            DEF IInv, RestTyped, RunsFit, Runs, ChildFits, ChildOpens, Key
  <2>3. ASSUME NEW end \in {"none", "ok", "failed"}, ChildEnds(l, end)
        PROVE  ChildFits'
    <3>1. \A c \in Contents : stream[c] \in Streams => stream'[c] \in Streams
      BY <2>3 DEF IInv, RestTyped, ChildEnds, Streams
    <3> QED BY <2>1, <2>3, <3>1 DEF IInv, RestTyped, RunsFit, Runs, ChildFits, ChildEnds, Key
  <2>4. CASE ChildGone(l)
    BY <2>1, <2>4 DEF IInv, RestTyped, ChildFits, ChildGone, files
  <2> QED BY <2>2, <2>3, <2>4 DEF Child
<1> QED BY <1>4, <1>5, <1>6, <1>7 DEF IInv

(* A launcher that keeps its hash keeps the plugins' streams in place.     *)
LEMMA ChildFitsStill ==
  ASSUME IInv, NEW l \in Launchers, NEW r, Changes(l, r), r.key = run[l].key,
         UNCHANGED <<stream, child>>
  PROVE  ChildFits'
BY DEF IInv, ChildFits, Changes, Key

(* A launcher at work that keeps its hash goes on owning its partial cache.*)
LEMMA OwnersStay ==
  ASSUME IInv, NEW l \in Launchers, NEW r, Changes(l, r), r.key = run[l].key, r.step # "idle",
         NEW c \in Contents, ~crashed, partial[c] # None
  PROVE  \E m \in Launchers : (Working(m) /\ Key(m) = c)'
<1>1. PICK m \in Launchers : Working(m) /\ Key(m) = c
  BY DEF IInv, Safe, PartialHasAnOwner
<1> QED BY <1>1 DEF Changes, Working, Key

LEMMA StartKeeps ==
  ASSUME IInv, NEW l \in Launchers, Start(l)
  PROVE  IInv'
<1> DEFINE r1 == [Ended("none") EXCEPT !.step = "hashing"]
<1>1. Fits(r1) /\ r1.step = "hashing" /\ r1.key = None
  BY DEF Fits, Runs, Steps, Results, Ended
<1>2. run' = [run EXCEPT ![l] = r1] /\ run[l].step = "idle" /\ child[l] = "none"
  BY DEF Start, At
<1> HIDE DEF r1
<1>3. Changes(l, r1) /\ RunsFit'
  BY <1>1, <1>2, Changed DEF IInv
<1>4. RestTyped'
  BY ExtractionAssumption DEF IInv, RestTyped, Start, files
<1>5. ChildFits'
  BY <1>1, <1>2, <1>3 DEF IInv, ChildFits, Changes, Start, files, Key
<1>6. HolderConverts'
  <2>1. ASSUME NEW c \in Contents, partial'[c] # None, partial'[c].holder # None
        PROVE  (At(partial[c].holder, "converting") /\ Key(partial[c].holder) = c)'
    <3>1. partial'[c] = partial[c] /\ partial[c].holder \in Launchers
      BY <2>1, HolderType DEF IInv, Start, files
    <3> QED BY <1>2, <1>3, <2>1, <3>1 DEF IInv, Safe, HolderConverts, Changes, At, Key
  <2>2. ASSUME NEW m \in Launchers, At(m, "hashing")' PROVE (Key(m) = None)'
    BY <1>1, <1>3, <2>2 DEF IInv, Safe, HolderConverts, Changes, At, Key
  <2>3. ASSUME NEW c \in Contents, final'[c] # None PROVE final'[c].holder = None
    BY <2>3 DEF IInv, Safe, HolderConverts, Start, files
  <2> QED BY <2>1, <2>2, <2>3 DEF HolderConverts
<1>7. PartialHasAnOwner'
  BY <1>2, <1>3 DEF IInv, Safe, PartialHasAnOwner, Changes, Start, files, Working, Key
<1>8. WholeWithoutLoss'
  BY DEF IInv, Safe, WholeWithoutLoss, CountedIsWhole, Start, files
<1>9. ASSUME ~overlapped' PROVE Alone'
  BY <1>1, <1>3, <1>9 DEF IInv, Safe, Alone, Changes, Start, files, At, Key, Working
<1> QED BY <1>3, <1>4, <1>5, <1>6, <1>7, <1>8, <1>9 DEF IInv, Safe

LEMMA CancelKeeps ==
  ASSUME IInv, NEW l \in Launchers, Cancel(l)
  PROVE  IInv'
<1> DEFINE r1 == [run[l] EXCEPT !.cancelRequested = TRUE]
<1>1. Fits(r1) /\ r1.step = run[l].step /\ r1.key = run[l].key
  BY DEF IInv, RunsFit, Fits, Runs
<1>2. run' = [run EXCEPT ![l] = r1] /\ run[l].step # "idle"
  BY DEF IInv, RunsFit, Cancel, Working
<1>3. UNCHANGED <<nwd, final, partial, stream, child, starts, edits, losses, overlapped, crashed>>
  BY DEF Cancel, files, bounds
<1> HIDE DEF r1
<1>4. Changes(l, r1) /\ RunsFit'
  BY <1>1, <1>2, Changed DEF IInv
<1>5. RestTyped'
  BY <1>3 DEF IInv, RestTyped
<1>6. ChildFits'
  BY <1>1, <1>3, <1>4, ChildFitsStill
<1>7. \A m \in Launchers : run'[m].step = run[m].step /\ run'[m].key = run[m].key
  BY <1>1, <1>4 DEF Changes
<1>8. HolderConverts'
  <2>1. ASSUME NEW c \in Contents, partial'[c] # None, partial'[c].holder # None
        PROVE  (At(partial[c].holder, "converting") /\ Key(partial[c].holder) = c)'
    <3>1. partial'[c] = partial[c] /\ partial[c].holder \in Launchers
      BY <1>3, <2>1, HolderType DEF IInv
    <3> QED BY <1>7, <2>1, <3>1 DEF IInv, Safe, HolderConverts, At, Key
  <2> QED BY <1>3, <1>7, <2>1 DEF IInv, Safe, HolderConverts, At, Key
<1>9. PartialHasAnOwner'
  BY <1>3, <1>7 DEF IInv, Safe, PartialHasAnOwner, Working, Key
<1>10. WholeWithoutLoss' /\ (~overlapped' => Alone')
  BY <1>3, <1>7 DEF IInv, Safe, WholeWithoutLoss, CountedIsWhole, Alone, At, Key, Working
<1> QED BY <1>4, <1>5, <1>6, <1>8, <1>9, <1>10 DEF IInv, Safe

(* Who holds and who owns a partial cache, after a step of l that keeps its *)
(* hash, lets go or takes hold of nothing but its own, and makes no other. *)
LEMMA HoldersAndOwners ==
  ASSUME IInv, NEW l \in Launchers, NEW r, Changes(l, r), r.key = run[l].key, Working(l),
         r.step \notin {"idle", "hashing"},
         \A c \in Contents : final'[c] # None => final'[c].holder = None,
         \A c \in Contents : partial'[c] # None => partial[c] # None \/ c = Key(l),
         \A c \in Contents : partial'[c] # None /\ partial'[c].holder # None =>
           \/ partial[c] # None /\ partial'[c].holder = partial[c].holder /\ partial[c].holder # l
           \/ c = Key(l) /\ partial'[c].holder = l /\ r.step = "converting",
         crashed' = crashed
  PROVE  HolderConverts' /\ PartialHasAnOwner'
<1>1. HolderConverts'
  <2>1. ASSUME NEW c \in Contents, partial'[c] # None, partial'[c].holder # None
        PROVE  (At(partial[c].holder, "converting") /\ Key(partial[c].holder) = c)'
    <3>1. CASE partial[c] # None /\ partial'[c].holder = partial[c].holder /\ partial[c].holder # l
      <4>1. partial[c].holder \in Launchers \ {l}
        BY <2>1, <3>1, HolderType DEF IInv
      <4> QED BY <2>1, <3>1, <4>1 DEF IInv, Safe, HolderConverts, Changes, At, Key
    <3>2. CASE c = Key(l) /\ partial'[c].holder = l /\ r.step = "converting"
      BY <3>2 DEF Changes, At, Key
    <3> QED BY <2>1, <3>1, <3>2
  <2>2. ASSUME NEW m \in Launchers, At(m, "hashing")' PROVE (Key(m) = None)'
    BY <2>2 DEF IInv, Safe, HolderConverts, Changes, At, Key
  <2> QED BY <2>1, <2>2 DEF HolderConverts
<1>2. PartialHasAnOwner'
  <2> SUFFICES ASSUME ~crashed', NEW c \in Contents, partial'[c] # None
               PROVE  \E m \in Launchers : (Working(m) /\ Key(m) = c)'
    BY DEF PartialHasAnOwner
  <2>1. CASE c = Key(l)
    BY <2>1 DEF Changes, Working, Key
  <2>2. CASE partial[c] # None
    BY <2>2, OwnersStay
  <2> QED BY <2>1, <2>2
<1> QED BY <1>1, <1>2

LEMMA OpenConversionKeeps ==
  ASSUME IInv, NEW l \in Launchers, OpenConversion(l)
  PROVE  IInv'
<1> DEFINE r1 == [run[l] EXCEPT !.step = "converting", !.read = stream[Key(l)]]
<1>1. Key(l) \in Contents /\ stream[Key(l)] \in Streams /\ run[l].step = "creating"
  BY DEF IInv, RunsFit, RestTyped, Fits, Runs, OpenConversion, At, Key
<1>2. Fits(r1) /\ r1.step = "converting" /\ r1.key = run[l].key
  BY <1>1 DEF IInv, RunsFit, Fits, Runs, Steps, OpenConversion, Key
<1>3. run' = [run EXCEPT ![l] = r1]
  BY DEF IInv, RunsFit, OpenConversion
<1>4. Junk(l) \in Caches /\ ~Junk(l).counted
  BY <1>1 DEF Junk, Caches
<1>5. partial' \in [Contents -> Caches \cup {None}] /\ partial'[Key(l)] = Junk(l)
      /\ \A c \in Contents \ {Key(l)} : partial'[c] = partial[c]
  BY <1>1, <1>4 DEF IInv, RestTyped, OpenConversion
<1>6. UNCHANGED <<nwd, final, stream, child, starts, edits, losses, overlapped, crashed>>
  BY DEF OpenConversion, bounds
<1> HIDE DEF r1
<1>7. Changes(l, r1) /\ RunsFit'
  BY <1>2, <1>3, Changed DEF IInv
<1>8. RestTyped'
  BY <1>5, <1>6 DEF IInv, RestTyped
<1>9. ChildFits'
  BY <1>2, <1>6, <1>7, ChildFitsStill
<1>10. Junk(l).holder = l /\ Working(l)
  BY <1>1 DEF Junk, Working
<1>11. HolderConverts' /\ PartialHasAnOwner'
  <2>1. \A c \in Contents \ {Key(l)} : partial[c] # None /\ partial[c].holder # None
          => partial[c].holder # l
    BY <1>1 DEF IInv, Safe, HolderConverts, At
  <2> QED BY <1>1, <1>2, <1>5, <1>6, <1>7, <1>10, <2>1, HoldersAndOwners
          DEF IInv, Safe, HolderConverts
<1>12. WholeWithoutLoss'
  BY <1>4, <1>5, <1>6 DEF IInv, Safe, WholeWithoutLoss, CountedIsWhole
<1>13. ASSUME ~overlapped' PROVE Alone'
  BY <1>1, <1>2, <1>6, <1>7, <1>13 DEF IInv, Safe, Alone, Changes, At, Key, Working
<1> QED BY <1>7, <1>8, <1>9, <1>11, <1>12, <1>13 DEF IInv, Safe

LEMMA OpenConversionFailsKeeps ==
  ASSUME IInv, NEW l \in Launchers, OpenConversionFails(l)
  PROVE  IInv'
<1> DEFINE r1 == Reported(l, "failed", TRUE)
<1>1. Key(l) \in Contents /\ Working(l) /\ run[l].step = "creating"
  BY DEF IInv, RunsFit, Fits, Runs, OpenConversionFails, At, Key, Working
<1>2. Changes(l, r1) /\ RunsFit'
  <2>1. Report(l, "failed", TRUE) /\ "failed" \in Results
    BY DEF OpenConversionFails, Results
  <2> QED BY <2>1, ReportFacts DEF IInv
<1>3. r1.step = "cleaning" /\ r1.key = run[l].key
  BY DEF IInv, RunsFit, Runs, Reported
<1> HIDE DEF r1
<1>4. UNCHANGED <<nwd, final, stream, child, starts, edits, losses, overlapped, crashed>>
  BY DEF OpenConversionFails, bounds
<1> DEFINE v == [Junk(l) EXCEPT !.holder = None]
<1>5. v \in Caches /\ ~v.counted /\ v.holder = None
  BY <1>1 DEF Junk, Caches
<1>5a. partial' = partial \/ partial' = [partial EXCEPT ![Key(l)] = v]
  BY DEF OpenConversionFails
<1> HIDE DEF v
<1>6. /\ partial' \in [Contents -> Caches \cup {None}]
      /\ \A c \in Contents : partial'[c] = partial[c] \/ (c = Key(l) /\ partial'[c] = v)
  BY <1>1, <1>5, <1>5a DEF IInv, RestTyped
<1>7. RestTyped'
  BY <1>4, <1>6 DEF IInv, RestTyped
<1>8. ChildFits'
  BY <1>2, <1>3, <1>4, ChildFitsStill
<1>9. HolderConverts' /\ PartialHasAnOwner'
  <2>1. \A c \in Contents : partial[c] # None /\ partial[c].holder # None => partial[c].holder # l
    BY <1>1 DEF IInv, Safe, HolderConverts, At
  <2> QED BY <1>1, <1>2, <1>3, <1>4, <1>5, <1>6, <2>1, HoldersAndOwners
          DEF IInv, Safe, HolderConverts
<1>10. WholeWithoutLoss'
  BY <1>4, <1>5, <1>6 DEF IInv, Safe, WholeWithoutLoss, CountedIsWhole
<1>11. ASSUME ~overlapped' PROVE Alone'
  BY <1>1, <1>2, <1>3, <1>4, <1>11 DEF IInv, Safe, Alone, Changes, At, Key, Working
<1> QED BY <1>2, <1>7, <1>8, <1>9, <1>10, <1>11 DEF IInv, Safe

LEMMA ConvertStreamKeeps ==
  ASSUME IInv, NEW l \in Launchers, ConvertStream(l)
  PROVE  IInv'
<1> DEFINE r1 == [run[l] EXCEPT !.step = "flushing", !.read = None]
<1>1. Key(l) \in Contents /\ Working(l) /\ run[l].step = "converting" /\ run[l].read \in Streams
  BY DEF IInv, RunsFit, Fits, Runs, ConvertStream, At, Key, Working
<1>2. Fits(r1) /\ r1.step = "flushing" /\ r1.key = run[l].key
  BY <1>1 DEF IInv, RunsFit, Fits, Runs, Steps, Key
<1>3. run' = [run EXCEPT ![l] = r1]
  BY DEF IInv, RunsFit, ConvertStream
<1> HIDE DEF r1
<1>4. Changes(l, r1) /\ RunsFit'
  BY <1>2, <1>3, Changed DEF IInv
<1>5. UNCHANGED <<nwd, final, stream, child, starts, edits, losses, overlapped, crashed>>
  BY DEF ConvertStream, bounds
<1> DEFINE v == [of |-> run[l].read.of, whole |-> TRUE, counted |-> TRUE, flushed |-> FALSE,
                 holder |-> None]
<1>6. v \in Caches /\ v.whole /\ v.holder = None
  BY <1>1 DEF Caches, Streams
<1>7. partial' = [partial EXCEPT ![Key(l)] = v]
  BY DEF ConvertStream
<1> HIDE DEF v
<1>8. partial' \in [Contents -> Caches \cup {None}] /\ partial'[Key(l)] = v
      /\ \A c \in Contents \ {Key(l)} : partial'[c] = partial[c]
  BY <1>1, <1>6, <1>7 DEF IInv, RestTyped
<1>9. RestTyped'
  BY <1>5, <1>8 DEF IInv, RestTyped
<1>10. ChildFits'
  BY <1>2, <1>4, <1>5, ChildFitsStill
<1>11. HolderConverts' /\ PartialHasAnOwner'
  <2>1. \A c \in Contents \ {Key(l)} : partial[c] # None /\ partial[c].holder # None
          => partial[c].holder # l
    BY <1>1 DEF IInv, Safe, HolderConverts
  <2>2. \A c \in Contents : final'[c] # None => final'[c].holder = None
    BY <1>5 DEF IInv, Safe, HolderConverts
  <2>3. \A c \in Contents : partial'[c] # None => partial[c] # None \/ c = Key(l)
    BY <1>8
  <2>4. \A c \in Contents : partial'[c] # None /\ partial'[c].holder # None =>
          partial[c] # None /\ partial'[c].holder = partial[c].holder /\ partial[c].holder # l
    BY <1>6, <1>8, <2>1
  <2> QED BY <1>1, <1>2, <1>4, <1>5, <2>2, <2>3, <2>4, HoldersAndOwners
<1>12. WholeWithoutLoss'
  BY <1>5, <1>6, <1>8 DEF IInv, Safe, WholeWithoutLoss, CountedIsWhole
<1>13. ASSUME ~overlapped' PROVE Alone'
  BY <1>1, <1>2, <1>4, <1>5, <1>6, <1>8, <1>13
     DEF IInv, Safe, Alone, Changes, At, Key, Working
<1> QED BY <1>4, <1>9, <1>10, <1>11, <1>12, <1>13 DEF IInv, Safe

LEMMA ReleasedFacts ==
  ASSUME IInv, NEW l \in Launchers, partial' = Released(l)
  PROVE  /\ partial' \in [Contents -> Caches \cup {None}]
         /\ \A c \in Contents : partial'[c] # None => partial[c] # None
         /\ \A c \in Contents : partial'[c] # None /\ partial'[c].holder # None =>
              partial'[c] = partial[c] /\ partial[c].holder # l
         /\ \A c \in Contents : CountedIsWhole(partial[c]) => CountedIsWhole(partial'[c])
<1>1. ASSUME NEW c \in Contents
      PROVE  /\ partial'[c] \in Caches \cup {None}
             /\ partial'[c] # None => partial[c] # None /\ partial'[c].holder # l
             /\ partial'[c] # None => partial'[c].holder = None \/ partial'[c] = partial[c]
             /\ CountedIsWhole(partial[c]) => CountedIsWhole(partial'[c])
  <2>1. CASE partial[c] # None /\ partial[c].holder = l
    <3>1. partial'[c] = [partial[c] EXCEPT !.holder = None]
      BY <2>1 DEF Released
    <3>2. partial[c] \in Caches
      BY <2>1 DEF IInv, RestTyped
    <3>3. partial'[c] \in Caches /\ partial'[c].holder = None
          /\ partial'[c].counted = partial[c].counted /\ partial'[c].whole = partial[c].whole
      BY <3>1, <3>2 DEF Caches
    <3> QED BY <2>1, <3>3, ExtractionAssumption DEF CountedIsWhole
  <2>2. CASE ~(partial[c] # None /\ partial[c].holder = l)
    <3>1. partial'[c] = partial[c]
      BY <2>2 DEF Released
    <3> QED BY <2>2, <3>1 DEF IInv, RestTyped
  <2> QED BY <2>1, <2>2
<1>2. partial' \in [Contents -> Caches \cup {None}]
  BY <1>1 DEF Released
<1> QED BY <1>1, <1>2

LEMMA ConversionFailsKeeps ==
  ASSUME IInv, NEW l \in Launchers, ConversionFails(l)
  PROVE  IInv'
<1>1. PICK res \in Results, keep \in BOOLEAN : Report(l, res, keep)
  BY DEF ConversionFails, Results
<1> DEFINE r1 == Reported(l, res, keep)
<1>2. Working(l) /\ run[l].step = "converting"
  BY DEF ConversionFails, At, Working
<1>3. Changes(l, r1) /\ RunsFit'
  BY <1>1, ReportFacts DEF IInv
<1>4. r1.step = "cleaning" /\ r1.key = run[l].key
  BY DEF IInv, RunsFit, Runs, Reported
<1> HIDE DEF r1
<1>5. UNCHANGED <<nwd, final, stream, child, starts, edits, losses, overlapped, crashed>>
  BY DEF ConversionFails, bounds
<1>6. partial' = Released(l)
  BY DEF ConversionFails
<1>7. RestTyped'
  BY <1>5, <1>6, ReleasedFacts DEF IInv, RestTyped
<1>8. ChildFits'
  BY <1>3, <1>4, <1>5, ChildFitsStill
<1>9. HolderConverts' /\ PartialHasAnOwner'
  <2>1. \A c \in Contents : partial'[c] # None => partial[c] # None
    BY <1>6, ReleasedFacts DEF CountedIsWhole
  <2>2. \A c \in Contents : partial'[c] # None /\ partial'[c].holder # None =>
          partial'[c] = partial[c] /\ partial[c].holder # l
    BY <1>6, ReleasedFacts DEF CountedIsWhole
  <2>3. \A c \in Contents : final'[c] # None => final'[c].holder = None
    BY <1>5 DEF IInv, Safe, HolderConverts
  <2> QED BY <1>2, <1>3, <1>4, <1>5, <2>1, <2>2, <2>3, HoldersAndOwners
<1>10. WholeWithoutLoss'
  <2>1. \A c \in Contents : CountedIsWhole(partial[c]) => CountedIsWhole(partial'[c])
    BY <1>6, ReleasedFacts DEF CountedIsWhole
  <2>2. losses' = losses /\ final' = final
    BY <1>5
  <2> QED BY <2>1, <2>2 DEF IInv, Safe, WholeWithoutLoss, CountedIsWhole
<1>11. ASSUME ~overlapped' PROVE Alone'
  BY <1>2, <1>3, <1>4, <1>5, <1>11 DEF IInv, Safe, Alone, Changes, At, Key, Working
<1> QED BY <1>3, <1>7, <1>8, <1>9, <1>10, <1>11 DEF IInv, Safe

LEMMA FlushToDiskKeeps ==
  ASSUME IInv, NEW l \in Launchers, FlushToDisk(l)
  PROVE  IInv'
<1> DEFINE r1 == Moved(l, "publishing")
<1>1. Key(l) \in Contents /\ Working(l) /\ run[l].step = "flushing"
  BY DEF IInv, RunsFit, Fits, Runs, FlushToDisk, At, Key, Working
<1>2. Changes(l, r1) /\ RunsFit'
  <2>1. Goto(l, "publishing") /\ "publishing" \in Steps /\ Key(l) # None
    BY <1>1, ExtractionAssumption DEF FlushToDisk, Steps
  <2> QED BY <1>1, <2>1, GotoFacts DEF IInv
<1>3. r1.step = "publishing" /\ r1.key = run[l].key
  BY DEF IInv, RunsFit, Runs, Moved
<1> HIDE DEF r1
<1>4. UNCHANGED <<nwd, final, stream, child, starts, edits, losses, overlapped, crashed>>
  BY DEF FlushToDisk, bounds
<1>5. partial[Key(l)] \in Caches /\ partial[Key(l)] # None
  BY <1>1 DEF IInv, RestTyped, FlushToDisk
<1> DEFINE v == [partial[Key(l)] EXCEPT !.flushed = TRUE]
<1>6. v \in Caches /\ v.flushed /\ v.holder = partial[Key(l)].holder
      /\ v.counted = partial[Key(l)].counted /\ v.whole = partial[Key(l)].whole
  BY <1>5 DEF Caches
<1>7. partial' = [partial EXCEPT ![Key(l)] = v]
  BY <1>1 DEF IInv, RestTyped, FlushToDisk
<1> HIDE DEF v
<1>8. partial' \in [Contents -> Caches \cup {None}] /\ partial'[Key(l)] = v
      /\ \A c \in Contents \ {Key(l)} : partial'[c] = partial[c]
  BY <1>1, <1>6, <1>7 DEF IInv, RestTyped
<1>9. RestTyped'
  BY <1>4, <1>8 DEF IInv, RestTyped
<1>10. ChildFits'
  BY <1>2, <1>3, <1>4, ChildFitsStill
<1>11. HolderConverts' /\ PartialHasAnOwner'
  <2>1. \A c \in Contents : partial[c] # None /\ partial[c].holder # None => partial[c].holder # l
    BY <1>1 DEF IInv, Safe, HolderConverts, At
  <2>2. \A c \in Contents : partial'[c] # None => partial[c] # None \/ c = Key(l)
    BY <1>8
  <2>3. \A c \in Contents : partial'[c] # None /\ partial'[c].holder # None =>
          partial[c] # None /\ partial'[c].holder = partial[c].holder /\ partial[c].holder # l
    BY <1>5, <1>6, <1>8, <2>1
  <2>4. \A c \in Contents : final'[c] # None => final'[c].holder = None
    BY <1>4 DEF IInv, Safe, HolderConverts
  <2> QED BY <1>1, <1>2, <1>3, <1>4, <2>2, <2>3, <2>4, HoldersAndOwners
<1>12. WholeWithoutLoss'
  BY <1>4, <1>5, <1>6, <1>8 DEF IInv, Safe, WholeWithoutLoss, CountedIsWhole
<1>13. ASSUME ~overlapped' PROVE Alone'
  BY <1>1, <1>2, <1>3, <1>4, <1>5, <1>6, <1>8, <1>13
     DEF IInv, Safe, Alone, Changes, At, Key, Working
<1> QED BY <1>2, <1>9, <1>10, <1>11, <1>12, <1>13 DEF IInv, Safe

LEMMA PublishKeeps ==
  ASSUME IInv, NEW l \in Launchers, Publish(l)
  PROVE  IInv'
<1> DEFINE r1 == Reported(l, "ok", FALSE)
<1>1. Key(l) \in Contents /\ Working(l) /\ run[l].step = "publishing"
  BY DEF IInv, RunsFit, Fits, Runs, Publish, At, Key, Working
<1>2. Changes(l, r1) /\ RunsFit'
  <2>1. Report(l, "ok", FALSE) /\ "ok" \in Results
    BY DEF Publish, Results
  <2> QED BY <2>1, ReportFacts DEF IInv
<1>3. r1.step = "cleaning" /\ r1.key = run[l].key
  BY DEF IInv, RunsFit, Runs, Reported
<1> HIDE DEF r1
<1>4. UNCHANGED <<nwd, stream, child, starts, edits, losses, overlapped, crashed>>
  BY DEF Publish, bounds
<1>5. partial' \in [Contents -> Caches \cup {None}] /\ partial'[Key(l)] = None
      /\ \A c \in Contents \ {Key(l)} : partial'[c] = partial[c]
  BY <1>1 DEF IInv, RestTyped, Publish
<1>6. final' \in [Contents -> Caches \cup {None}]
      /\ \A c \in Contents : final'[c] # None =>
           final'[c] = final[c] \/ (c = Key(l) /\ partial[c] # None /\ final'[c] = partial[c])
  BY <1>1 DEF IInv, RestTyped, Publish
<1>7. \A c \in Contents : partial[c] # None /\ partial[c].holder # None => partial[c].holder # l
  BY <1>1 DEF IInv, Safe, HolderConverts, At
<1>8. partial[Key(l)] # None => partial[Key(l)].holder = None
  BY <1>1, <1>7 DEF Publish, HeldByOther
<1>9. RestTyped'
  BY <1>4, <1>5, <1>6 DEF IInv, RestTyped
<1>10. ChildFits'
  BY <1>2, <1>3, <1>4, ChildFitsStill
<1>11. HolderConverts' /\ PartialHasAnOwner'
  <2>1. \A c \in Contents : partial'[c] # None => partial[c] # None \/ c = Key(l)
    BY <1>5
  <2>2. \A c \in Contents : partial'[c] # None /\ partial'[c].holder # None =>
          partial[c] # None /\ partial'[c].holder = partial[c].holder /\ partial[c].holder # l
    BY <1>5, <1>7
  <2>3. \A c \in Contents : final'[c] # None => final'[c].holder = None
    BY <1>6, <1>8 DEF IInv, Safe, HolderConverts
  <2> QED BY <1>1, <1>2, <1>3, <1>4, <2>1, <2>2, <2>3, HoldersAndOwners
<1>12. WholeWithoutLoss'
  BY <1>4, <1>5, <1>6 DEF IInv, Safe, WholeWithoutLoss, CountedIsWhole
<1>13. ASSUME ~overlapped' PROVE Alone'
  <2>1. Alone
    BY <1>4, <1>13 DEF IInv, Safe
  <2>2. \A c \in Contents : final'[c] # None => final'[c].whole /\ final'[c].flushed
    BY <1>1, <1>6, <2>1 DEF Alone, At
  <2> QED BY <1>1, <1>2, <1>3, <2>1, <2>2 DEF Alone, Changes, At, Key, Working
<1> QED BY <1>2, <1>9, <1>10, <1>11, <1>12, <1>13 DEF IInv, Safe

LEMMA CleanUpKeeps ==
  ASSUME IInv, NEW l \in Launchers, CleanUp(l)
  PROVE  IInv'
<1> DEFINE r1 == [Ended(run[l].result) EXCEPT !.key = Key(l)]
<1>1. Key(l) \in Contents \cup {None} /\ Working(l) /\ run[l].step = "cleaning"
  BY DEF IInv, RunsFit, Fits, Runs, CleanUp, At, Key, Working
<1>2. Fits(r1) /\ r1.step = "idle" /\ r1.key = run[l].key
  BY DEF IInv, RunsFit, Fits, Runs, Steps, Ended, Key
<1>3. run' = [run EXCEPT ![l] = r1]
  BY DEF CleanUp
<1> HIDE DEF r1
<1>4. Changes(l, r1) /\ RunsFit'
  BY <1>2, <1>3, Changed DEF IInv
<1>5. UNCHANGED <<nwd, final, starts, edits, losses, overlapped, crashed>>
  BY DEF CleanUp, bounds
<1>6. /\ partial' \in [Contents -> Caches \cup {None}]
      /\ \A c \in Contents : partial'[c] \in {partial[c], None}
      /\ Key(l) # None => partial'[Key(l)] = None \/ HeldByOther(partial[Key(l)], l)
  BY PartialDeleted DEF CleanUp
<1>7. /\ stream' \in [Contents -> Streams \cup {None}]
      /\ child' \in [Launchers -> {"none", "starting", "writing", "detached"}]
  <2>1. CASE UNCHANGED <<stream, child>>
    BY <2>1 DEF IInv, RestTyped
  <2>2. CASE DeleteStream(l)
    BY <2>2, StreamDeleted
  <2> QED BY <2>1, <2>2 DEF CleanUp
<1>8. RestTyped'
  BY <1>5, <1>6, <1>7 DEF IInv, RestTyped
<1>9. ChildFits'
  <2>1. CASE UNCHANGED <<stream, child>>
    BY <1>2, <1>4, <2>1, ChildFitsStill
  <2>2. CASE DeleteStream(l)
    <3>1. ChildFitsYet
      BY <1>1, <2>2 DEF IInv, RestTyped, ChildFits, ChildFitsYet, DeleteStream, At
    <3> QED BY <1>2, <1>4, <3>1 DEF ChildFits, ChildFitsYet, Changes, Key
  <2> QED BY <2>1, <2>2 DEF CleanUp
<1>10. HolderConverts'
  <2>1. ASSUME NEW c \in Contents, partial'[c] # None, partial'[c].holder # None
        PROVE  (At(partial[c].holder, "converting") /\ Key(partial[c].holder) = c)'
    <3>1. partial'[c] = partial[c] /\ partial[c].holder \in Launchers
      BY <1>6, <2>1, HolderType DEF IInv
    <3> QED BY <1>1, <1>4, <2>1, <3>1 DEF IInv, Safe, HolderConverts, Changes, At, Key
  <2>2. ASSUME NEW m \in Launchers, At(m, "hashing")' PROVE (Key(m) = None)'
    BY <1>2, <1>4, <2>2 DEF IInv, Safe, HolderConverts, Changes, At, Key
  <2>3. ASSUME NEW c \in Contents, final'[c] # None PROVE final'[c].holder = None
    BY <1>5, <2>3 DEF IInv, Safe, HolderConverts
  <2> QED BY <2>1, <2>2, <2>3 DEF HolderConverts
<1>11. PartialHasAnOwner'
  <2> SUFFICES ASSUME ~crashed', NEW c \in Contents, partial'[c] # None
               PROVE  \E m \in Launchers : (Working(m) /\ Key(m) = c)'
    BY DEF PartialHasAnOwner
  <2>1. partial'[c] = partial[c] /\ partial[c] # None
    BY <1>6
  <2>2. CASE c = Key(l)
    <3>1. partial[c].holder \in Launchers \ {l}
      BY <1>6, <2>1, <2>2, HolderType, ExtractionAssumption DEF IInv, HeldByOther
    <3>2. At(partial[c].holder, "converting") /\ Key(partial[c].holder) = c
      BY <2>1, <3>1, ExtractionAssumption DEF IInv, Safe, HolderConverts
    <3> QED BY <1>4, <3>1, <3>2 DEF Changes, At, Working, Key
  <2>3. CASE c # Key(l)
    <3>1. PICK m \in Launchers : Working(m) /\ Key(m) = c
      BY <1>5, <2>1 DEF IInv, Safe, PartialHasAnOwner
    <3> QED BY <1>4, <2>3, <3>1 DEF Changes, Working, Key
  <2> QED BY <2>2, <2>3
<1>12. WholeWithoutLoss'
  BY <1>5, <1>6 DEF IInv, Safe, WholeWithoutLoss, CountedIsWhole
<1>13. ASSUME ~overlapped' PROVE Alone'
  BY <1>1, <1>2, <1>4, <1>5, <1>13 DEF IInv, Safe, Alone, Changes, At, Key, Working
<1> QED BY <1>4, <1>8, <1>9, <1>10, <1>11, <1>12, <1>13 DEF IInv, Safe

LEMMA CrashKeeps ==
  ASSUME IInv, NEW l \in Launchers, Crash(l)
  PROVE  IInv'
<1> DEFINE r1 == [Ended("none") EXCEPT !.key = Key(l)]
<1>1. Fits(r1) /\ r1.step = "idle" /\ r1.key = run[l].key
  BY DEF IInv, RunsFit, Fits, Runs, Steps, Results, Ended, Key
<1>2. run' = [run EXCEPT ![l] = r1]
  BY DEF Crash
<1> HIDE DEF r1
<1>3. Changes(l, r1) /\ RunsFit'
  BY <1>1, <1>2, Changed DEF IInv
<1>4. UNCHANGED <<nwd, final, stream, child, starts, edits, losses, overlapped>> /\ crashed'
  BY DEF Crash
<1>5. partial' = Released(l)
  BY DEF Crash
<1>6. RestTyped'
  BY <1>4, <1>5, ReleasedFacts DEF IInv, RestTyped, Crash
<1>7. ChildFits'
  BY <1>1, <1>3, <1>4, ChildFitsStill
<1>8. HolderConverts'
  <2>1. ASSUME NEW c \in Contents, partial'[c] # None, partial'[c].holder # None
        PROVE  (At(partial[c].holder, "converting") /\ Key(partial[c].holder) = c)'
    <3>1. partial'[c] = partial[c] /\ partial[c].holder # l
      BY <1>5, <2>1, ReleasedFacts
    <3>2. partial[c].holder \in Launchers
      BY <2>1, <3>1, HolderType DEF IInv
    <3> QED BY <1>3, <2>1, <3>1, <3>2 DEF IInv, Safe, HolderConverts, Changes, At, Key
  <2>2. ASSUME NEW m \in Launchers, At(m, "hashing")' PROVE (Key(m) = None)'
    BY <1>1, <1>3, <2>2 DEF IInv, Safe, HolderConverts, Changes, At, Key
  <2>3. ASSUME NEW c \in Contents, final'[c] # None PROVE final'[c].holder = None
    BY <1>4, <2>3 DEF IInv, Safe, HolderConverts
  <2> QED BY <2>1, <2>2, <2>3 DEF HolderConverts
<1>9. PartialHasAnOwner'
  BY <1>4 DEF PartialHasAnOwner
<1>10. WholeWithoutLoss'
  <2>1. \A c \in Contents : CountedIsWhole(partial[c]) => CountedIsWhole(partial'[c])
    BY <1>5, ReleasedFacts
  <2>2. losses' = losses /\ final' = final
    BY <1>4
  <2> QED BY <2>1, <2>2 DEF IInv, Safe, WholeWithoutLoss, CountedIsWhole
<1>11. ASSUME ~overlapped' PROVE Alone'
  <2>1. Working(l)
    BY DEF Crash
  <2> QED BY <1>1, <1>3, <1>4, <1>11, <2>1 DEF IInv, Safe, Alone, Changes, At, Key, Working
<1> QED BY <1>3, <1>6, <1>7, <1>8, <1>9, <1>10, <1>11 DEF IInv, Safe

LEMMA AfterLossFacts ==
  ASSUME NEW f \in Caches \cup {None}, NEW torn \in BOOLEAN
  PROVE  /\ AfterLoss(f, torn) \in Caches \cup {None}
         /\ AfterLoss(f, torn) # None =>
              f # None /\ AfterLoss(f, torn).holder = None /\ AfterLoss(f, torn).flushed
         /\ AfterLoss(f, torn) # None /\ f.whole /\ f.flushed => AfterLoss(f, torn).whole
<1>1. CASE f = None
  BY <1>1 DEF AfterLoss
<1>2. CASE f # None
  <2> DEFINE g == [f EXCEPT !.holder = None, !.whole = @ /\ (f.flushed \/ ~torn),
                            !.flushed = TRUE]
  <2>1. AfterLoss(f, torn) = g
    BY <1>2 DEF AfterLoss
  <2>2. g \in Caches /\ g.holder = None /\ g.flushed
    BY <1>2 DEF Caches
  <2>3. f.whole /\ f.flushed => g.whole
    BY <1>2 DEF Caches
  <2> HIDE DEF g
  <2> QED BY <1>2, <2>1, <2>2, <2>3
<1> QED BY <1>1, <1>2

LEMMA PowerLossKeeps ==
  ASSUME IInv, NEW torn \in BOOLEAN, PowerLoss(torn)
  PROVE  IInv'
<1>1. Fits(Ended("none")) /\ Ended("none").step = "idle"
  BY DEF Fits, Runs, Steps, Results, Ended
<1>2. \A l \in Launchers : run'[l] = Ended("none") /\ child'[l] = "none"
  BY DEF PowerLoss
<1>3. RunsFit'
  <2>1. run' \in [Launchers -> Runs]
    BY <1>1 DEF PowerLoss, Fits
  <2> QED BY <1>1, <1>2, <2>1 DEF RunsFit
<1>4. ASSUME NEW c \in Contents
      PROVE  /\ final'[c] \in Caches \cup {None} /\ partial'[c] \in Caches \cup {None}
             /\ final'[c] # None => final[c] # None /\ final'[c].holder = None /\ final'[c].flushed
             /\ final'[c] # None /\ final[c].whole /\ final[c].flushed => final'[c].whole
             /\ partial'[c] # None => partial'[c].holder = None
  <2>1. final'[c] = AfterLoss(final[c], torn) /\ partial'[c] = AfterLoss(partial[c], torn)
    BY DEF PowerLoss
  <2>2. final[c] \in Caches \cup {None} /\ partial[c] \in Caches \cup {None}
    BY DEF IInv, RestTyped
  <2> QED BY <2>1, <2>2, AfterLossFacts
<1>5. RestTyped'
  <2>1. final' \in [Contents -> Caches \cup {None}] /\ partial' \in [Contents -> Caches \cup {None}]
    BY <1>4 DEF PowerLoss
  <2>2. stream' \in [Contents -> Streams \cup {None}]
    <3>1. ASSUME NEW c \in Contents PROVE stream'[c] \in Streams \cup {None}
      BY DEF IInv, RestTyped, PowerLoss, Streams
    <3> QED BY <3>1 DEF PowerLoss
  <2>3. child' \in [Launchers -> {"none", "starting", "writing", "detached"}]
    BY DEF PowerLoss
  <2> QED BY <2>1, <2>2, <2>3, ExtractionAssumption DEF IInv, RestTyped, PowerLoss
<1>6. ChildFits'
  BY <1>2 DEF ChildFits
<1>7. HolderConverts'
  BY <1>1, <1>2, <1>4 DEF HolderConverts, At
<1>8. PartialHasAnOwner' /\ WholeWithoutLoss'
  BY ExtractionAssumption DEF IInv, RestTyped, PartialHasAnOwner, WholeWithoutLoss, PowerLoss
<1>9. ASSUME ~overlapped' PROVE Alone'
  <2>1. Alone
    BY <1>9 DEF IInv, Safe, PowerLoss
  <2> QED BY <1>1, <1>2, <1>4, <2>1 DEF Alone, At, Working
<1> QED BY <1>3, <1>5, <1>6, <1>7, <1>8, <1>9 DEF IInv, Safe

-----------------------------------------------------------------------------
LEMMA InitHolds == Init => IInv
<1> SUFFICES ASSUME Init PROVE IInv
  OBVIOUS
<1>1. Fits(Ended("none")) /\ Ended("none").step = "idle"
  BY DEF Fits, Runs, Steps, Results, Ended
<1>2. RunsFit
  BY <1>1 DEF Init, RunsFit, Fits
<1>3. RestTyped
  <2>1. 0 \in 0 .. MaxStarts /\ 0 \in 0 .. MaxEdits /\ 0 \in 0 .. MaxLosses
    BY ExtractionAssumption
  <2> QED BY <2>1 DEF Init, RestTyped
<1>4. ChildFits
  BY DEF Init, ChildFits
<1>5. HolderConverts /\ PartialHasAnOwner /\ WholeWithoutLoss /\ Alone
  BY <1>1 DEF Init, HolderConverts, PartialHasAnOwner, WholeWithoutLoss, CountedIsWhole, Alone,
              At, Working
<1> QED BY <1>2, <1>3, <1>4, <1>5 DEF IInv, Safe

LEMMA StepKeeps ==
  ASSUME IInv, NEW l \in Launchers, Step(l)
  PROVE  IInv'
BY HashKeeps, HashFailsKeeps, CheckCacheKeeps, DiscardStaleCacheKeeps, LaunchKeeps,
   LaunchFailsKeeps, KillChildKeeps, ChildExitedKeeps, OpenConversionKeeps,
   OpenConversionFailsKeeps, ConvertStreamKeeps, ConversionFailsKeeps, FlushToDiskKeeps,
   PublishKeeps, ThrowsKeeps, CleanUpKeeps DEF Step

LEMMA StutterKeeps ==
  ASSUME IInv, UNCHANGED vars
  PROVE  IInv'
<1>1. RunsFit' /\ RestTyped' /\ ChildFits'
  BY DEF IInv, RunsFit, RestTyped, ChildFits, Key, vars, files, bounds
<1>2. Safe'
  BY UntouchedKeepsSafe DEF vars, files, bounds
<1> QED BY <1>1, <1>2 DEF IInv

(* The invariant is inductive.                                             *)
THEOREM Inductive == Spec => []IInv
<1>1. ASSUME IInv, [Next]_vars PROVE IInv'
  <2>1. ASSUME NEW c \in Contents, Edit(c) PROVE IInv'
    BY <1>1, <2>1, EditKeeps
  <2>2. ASSUME NEW l \in Launchers, Start(l) \/ Cancel(l) \/ Crash(l) \/ Step(l) \/ Child(l)
        PROVE  IInv'
    BY <1>1, <2>2, StartKeeps, CancelKeeps, CrashKeeps, StepKeeps, ChildKeeps
  <2>3. ASSUME NEW torn \in BOOLEAN, PowerLoss(torn) PROVE IInv'
    BY <1>1, <2>3, PowerLossKeeps
  <2>4. CASE UNCHANGED vars
    BY <1>1, <2>4, StutterKeeps
  <2> QED BY <1>1, <2>1, <2>2, <2>3, <2>4 DEF Next
<1> QED BY <1>1, InitHolds, PTL DEF Spec

(* The records and files of the launcher have their types: above all, a    *)
(* step that uses the paths has a hash, and only a conversion reads.       *)
THEOREM TypeCorrect == Spec => []TypeOK
<1>1. IInv => TypeOK
  BY TypesSplit DEF IInv
<1> QED BY <1>1, Inductive, PTL

(* For any number of overlapping launchers, a partial cache at rest        *)
(* belongs to one that is at work, as long as none was killed.             *)
THEOREM PartialsAreOwned == Spec => []PartialHasAnOwner
<1>1. IInv => PartialHasAnOwner
  BY DEF IInv, Safe
<1> QED BY <1>1, Inductive, PTL

(* For any number of launchers, crashes and edits, a cache that passes for *)
(* valid is whole; and through any number of losses of power, as long as   *)
(* no two launchers have overlapped.                                       *)
THEOREM ValidCachesAreWhole == Spec => []ValidCacheIsWhole
<1>1. ASSUME IInv, ~(overlapped /\ losses > 0), NEW c \in Contents, Valid(final[c])
      PROVE  final[c].whole
  <2>1. CASE ~overlapped
    BY <1>1, <2>1 DEF IInv, Safe, Alone, Valid
  <2>2. CASE losses = 0
    BY <1>1, <2>2 DEF IInv, Safe, WholeWithoutLoss, CountedIsWhole, Valid
  <2>3. losses \in Nat
    BY <1>1, ExtractionAssumption DEF IInv, RestTyped
  <2> QED BY <1>1, <2>1, <2>2, <2>3
<1>2. IInv => ValidCacheIsWhole
  BY <1>1 DEF ValidCacheIsWhole
<1> QED BY <1>2, Inductive, PTL

-----------------------------------------------------------------------------
(* While launchers do not overlap: a cache found stale is stale until it   *)
(* is deleted, from then on there is none until the launcher publishes     *)
(* its own, which has its count, and no result is left over from an        *)
(* earlier launch.                                                         *)
ReportedStays ==
  ~overlapped => \A l \in Launchers :
    /\ At(l, "hashing") => run[l].result = "none"
    /\ At(l, "discarding") => ~Valid(final[Key(l)])
    /\ run[l].step \in {"launching", "running", "creating", "converting", "flushing", "publishing"}
         => final[Key(l)] = None
    /\ run[l].step \in {"flushing", "publishing"} /\ partial[Key(l)] # None => partial[Key(l)].counted
    /\ run[l].result \in {"ok", "cache-hit"} => Valid(final[Key(l)])

(* The steps of one launcher, the others being idle.                       *)
LEMMA StepKeepsReported ==
  ASSUME IInv, ReportedStays, ~overlapped, NEW l \in Launchers, Step(l)
  PROVE  ReportedStays'
<1> USE ExtractionAssumption
<1> USE DEF ReportedStays, At, Key, Working, Valid, Goto, Report, files, bounds, Runs, Steps
<1>0. /\ run \in [Launchers -> Runs] /\ final \in [Contents -> Caches \cup {None}]
      /\ partial \in [Contents -> Caches \cup {None}]
      /\ \A m \in Launchers : Working(m) /\ Working(l) => m = l
      /\ run[l].step \notin {"idle", "hashing", "cleaning"} => run[l].key \in Contents
  BY DEF IInv, RunsFit, Fits, RestTyped, Safe, Alone
<1>1. ASSUME Hash(l) PROVE ReportedStays'
  BY <1>0, <1>1 DEF Hash
<1>2. ASSUME HashFails(l) PROVE ReportedStays'
  BY <1>0, <1>2 DEF HashFails
<1>3. ASSUME CheckCache(l) PROVE ReportedStays'
  BY <1>0, <1>3 DEF CheckCache
<1>4. ASSUME DiscardStaleCache(l) PROVE ReportedStays'
  BY <1>0, <1>4 DEF DiscardStaleCache
<1>5. ASSUME Launch(l) PROVE ReportedStays'
  BY <1>0, <1>5 DEF Launch
<1>6. ASSUME LaunchFails(l) PROVE ReportedStays'
  BY <1>0, <1>6 DEF LaunchFails
<1>7. ASSUME KillChild(l) PROVE ReportedStays'
  BY <1>0, <1>7 DEF KillChild
<1>8. ASSUME ChildExited(l) PROVE ReportedStays'
  BY <1>0, <1>8 DEF ChildExited
<1>9. ASSUME OpenConversion(l) PROVE ReportedStays'
  BY <1>0, <1>9 DEF OpenConversion
<1>10. ASSUME OpenConversionFails(l) PROVE ReportedStays'
  <2>1. /\ final' = final /\ ~overlapped'
        /\ run'[l].step = "cleaning" /\ run'[l].result = "failed"
        /\ \A m \in Launchers \ {l} : run'[m] = run[m] /\ run[m].step = "idle"
    BY <1>0, <1>10 DEF OpenConversionFails
  <2> QED
    BY <2>1
<1>11. ASSUME ConvertStream(l) PROVE ReportedStays'
  BY <1>0, <1>11 DEF ConvertStream
<1>12. ASSUME ConversionFails(l) PROVE ReportedStays'
  BY <1>0, <1>12 DEF ConversionFails
<1>13. ASSUME FlushToDisk(l) PROVE ReportedStays'
  BY <1>0, <1>13 DEF FlushToDisk
<1>14. ASSUME Publish(l) PROVE ReportedStays'
  <2>1. /\ run'[l].step = "cleaning" /\ run'[l].result = "ok" /\ run'[l].key = run[l].key
        /\ \A m \in Launchers \ {l} : run'[m] = run[m] /\ run[m].step = "idle"
        /\ run[l].key \in Contents /\ ~overlapped'
    BY <1>0, <1>14 DEF Publish
  <2>2. \A c : final[c] # None => final'[c] = final[c]
    BY <1>0, <1>14, <2>1 DEF Publish
  <2>3. Valid(final'[run[l].key])
    <3>1. CASE final[run[l].key] # None /\ UNCHANGED final
      BY <1>0, <1>14, <3>1 DEF Publish
    <3>2. CASE final' = [final EXCEPT ![run[l].key] = partial[run[l].key]]
               /\ partial[run[l].key] # None
      BY <1>0, <1>14, <2>1, <3>2 DEF Publish
    <3> QED BY <1>14, <3>1, <3>2 DEF Publish
  <2>4. \A m \in Launchers \ {l} :
          run[m].result \in {"ok", "cache-hit"} => Valid(final'[run[m].key])
    BY <2>2
  <2> QED
    BY <2>1, <2>3, <2>4
<1>15. ASSUME Throws(l) PROVE ReportedStays'
  BY <1>0, <1>15 DEF Throws
<1>16. ASSUME CleanUp(l) PROVE ReportedStays'
  <2>1. /\ final' = final
        /\ run'[l].step = "idle" /\ run'[l].key = run[l].key /\ run'[l].result = run[l].result
        /\ \A m \in Launchers \ {l} : run'[m] = run[m]
    BY <1>0, <1>16 DEF CleanUp, Ended
  <2>2. \A m \in Launchers \ {l} : run[m].step = "idle"
    BY <1>0, <1>16 DEF CleanUp
  <2>3. ~overlapped'
    BY <1>16 DEF CleanUp
  <2> QED
    BY <2>1, <2>2, <2>3
<1> QED
  BY <1>1, <1>2, <1>3, <1>4, <1>5, <1>6, <1>7, <1>8, <1>9, <1>10, <1>11, <1>12, <1>13, <1>14,
     <1>15, <1>16 DEF Step

(* Everything else: starts, cancellations, deaths of launchers, plugins,   *)
(* edits and losses of power.                                              *)
LEMMA RestKeepsReported ==
  ASSUME IInv, ReportedStays, ~overlapped, ~overlapped',
         [Next]_vars, \A l \in Launchers : ~Step(l)
  PROVE  ReportedStays'
<1> USE DEF ReportedStays, At, Key, Working, Valid, files, bounds
<1>0. /\ run \in [Launchers -> Runs] /\ final \in [Contents -> Caches \cup {None}]
      /\ partial \in [Contents -> Caches \cup {None}]
  BY DEF IInv, RunsFit, RestTyped
<1> DEFINE Same == run' = run /\ final' = final /\ partial' = partial
<1>1. ASSUME Same PROVE ReportedStays'
  BY <1>1
<1>2. ASSUME NEW c \in Contents, Edit(c) PROVE Same
  BY <1>2 DEF Edit
<1>3. ASSUME NEW l \in Launchers, Start(l) PROVE ReportedStays'
  BY <1>0, <1>3 DEF Start, Ended
<1>4. ASSUME NEW l \in Launchers, Cancel(l) PROVE ReportedStays'
  <2>1. /\ final' = final /\ partial' = partial
        /\ \A m \in Launchers : /\ run'[m].step = run[m].step /\ run'[m].key = run[m].key
                              /\ run'[m].result = run[m].result
    BY <1>0, <1>4 DEF Cancel, Runs
  <2> QED
    BY <2>1
<1>5. ASSUME NEW l \in Launchers, Crash(l) PROVE ReportedStays'
  <2>1. /\ final' = final
        /\ run'[l].step = "idle" /\ run'[l].result = "none"
        /\ \A m \in Launchers \ {l} : run'[m] = run[m]
    BY <1>0, <1>5 DEF Crash, Ended
  <2>2. \A m \in Launchers \ {l} : run[m].step = "idle"
    BY <1>5 DEF Crash, IInv, Safe, Alone
  <2> QED
    BY <2>1, <2>2
<1>6. ASSUME NEW l \in Launchers, Child(l) PROVE Same
  BY <1>6 DEF Child, ChildOpens, ChildEnds, ChildGone
<1>7. ASSUME NEW torn \in BOOLEAN, PowerLoss(torn) PROVE ReportedStays'
  BY <1>7 DEF PowerLoss, Ended
<1>8. ASSUME UNCHANGED vars PROVE Same
  BY <1>8 DEF vars
<1> QED
  BY <1>1, <1>2, <1>3, <1>4, <1>5, <1>6, <1>7, <1>8 DEF Next

(* Two launchers that have overlapped have overlapped for good.            *)
LEMMA OverlapLasts ==
  ASSUME [Next]_vars, overlapped
  PROVE  overlapped'
<1> USE DEF files, bounds
<1>1. ASSUME NEW l \in Launchers, Step(l) PROVE overlapped'
  BY <1>1 DEF Step, Hash, HashFails, CheckCache, DiscardStaleCache, Launch, LaunchFails, KillChild,
       ChildExited, OpenConversion, OpenConversionFails, ConvertStream, ConversionFails,
       FlushToDisk, Publish, Throws, CleanUp
<1>2. ASSUME NEW l \in Launchers, Start(l) \/ Cancel(l) \/ Crash(l) \/ Child(l) PROVE overlapped'
  BY <1>2 DEF Start, Cancel, Crash, Child, ChildOpens, ChildEnds, ChildGone
<1>3. ASSUME UNCHANGED vars PROVE overlapped'
  BY <1>3 DEF vars
<1> QED
  BY <1>1, <1>2, <1>3 DEF Next, Edit, PowerLoss

(* A cache that a launcher has reported, made or found, stays where it is  *)
(* and valid, over any number of later launches, kills and losses of       *)
(* power, as long as no two launchers have been at work at once.           *)
THEOREM ReportedCachesStay == Spec => []ReportedCacheStays
<1>1. Init => ReportedStays
  BY DEF Init, Ended, ReportedStays, At, Key
<1>2. IInv /\ ReportedStays /\ [Next]_vars => ReportedStays'
  <2> SUFFICES ASSUME IInv, ReportedStays, [Next]_vars PROVE ReportedStays'
    OBVIOUS
  <2>1. CASE overlapped'
    BY <2>1 DEF ReportedStays
  <2>2. CASE ~overlapped'
    BY <2>2, OverlapLasts, StepKeepsReported, RestKeepsReported
  <2> QED
    BY <2>1, <2>2
<1>3. ReportedStays => ReportedCacheStays
  BY DEF ReportedStays, ReportedCacheStays
<1> QED
  BY Inductive, <1>1, <1>2, <1>3, PTL DEF Spec
=============================================================================
