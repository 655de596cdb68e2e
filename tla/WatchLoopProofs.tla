--------------------------- MODULE WatchLoopProofs ---------------------------
(***************************************************************************)
(* A change of a watched file is never lost without a cause, for any files, *)
(* directories and limits.                                                  *)
(*                                                                          *)
(* The argument follows a changed file from hand to hand: every step that   *)
(* takes it from one place puts it into the next, or leaves a mark of its   *)
(* directory there.  A mark is answered by a rescan, which finds the file   *)
(* or says why it did not.                                                  *)
(***************************************************************************)
EXTENDS WatchLoop, TLAPS

Stages == {"new", "open", "read", "offer", "mark", "fail", "gone"}

\* The types of what can carry a file.
CarrierType ==
    /\ kernel \in [Dirs -> [records : SUBSET Files, lost : BOOLEAN]]
    /\ reader \in [Dirs -> Stages]
    /\ names \in [Dirs -> SUBSET Files]
    /\ events \in Seq(Events)
    /\ owed \subseteq Matching

\* A buffer that gave something up holds nothing, a reader that reads has
\* offered all it had, and nothing is owed before the watch begins.
HandsFree ==
    /\ \A d \in Dirs : kernel[d].lost => kernel[d].records = {}
    /\ \A d \in Dirs : names[d] # {} => reader[d] \in {"offer", "mark"}
    /\ pc = "start" => owed = {}
    /\ pc = "start" => \A d \in Dirs : reader[d] = "new"

IInv == CarrierType /\ HandsFree /\ LossHasACause

Explained(f) == Carried(f) \/ f \in lost \cup unheard

---------------------------------------------------------------------------
(* The queue *)

LEMMA Appending ==
    ASSUME events \in Seq(Events), NEW item \in Events, events' = Append(events, item)
    PROVE  events' \in Seq(Events) /\ Queued' = Queued \cup {item}
  <1>1. /\ events' \in Seq(Events) /\ Len(events') = Len(events) + 1 /\ Len(events) \in Nat
        /\ \A i \in 1 .. Len(events) : events'[i] = events[i]
        /\ events'[Len(events) + 1] = item
    OBVIOUS
  <1>2. DOMAIN events = 1 .. Len(events) /\ DOMAIN events' = 1 .. (Len(events) + 1)
    BY <1>1
  <1>3. ASSUME NEW e \in Queued' PROVE e \in Queued \cup {item}
    <2>1. PICK i \in 1 .. (Len(events) + 1) : e = events'[i]
      BY <1>2, <1>3 DEF Queued
    <2>2. i = Len(events) + 1 \/ i \in 1 .. Len(events)
      BY <1>1, <2>1
    <2>3. QED BY <1>1, <1>2, <2>1, <2>2 DEF Queued
  <1>4. ASSUME NEW e \in Queued \cup {item} PROVE e \in Queued'
    <2>1. CASE e = item
      <3>1. Len(events) + 1 \in DOMAIN events'
        BY <1>1, <1>2
      <3>2. QED BY <1>1, <2>1, <3>1 DEF Queued
    <2>2. CASE e \in Queued
      <3>1. PICK i \in 1 .. Len(events) : e = events[i]
        BY <1>2, <2>2 DEF Queued
      <3>2. i \in DOMAIN events' /\ events'[i] = e
        BY <1>1, <1>2, <3>1
      <3>3. QED BY <3>2 DEF Queued
    <2>3. QED BY <1>4, <2>1, <2>2
  <1>5. QED BY <1>1, <1>3, <1>4

LEMMA Taking ==
    ASSUME events \in Seq(Events), events # <<>>, events' = Tail(events)
    PROVE  /\ events' \in Seq(Events) /\ Head(events) \in Events
           /\ Queued \subseteq Queued' \cup {Head(events)}
  <1>1. /\ events' \in Seq(Events) /\ Len(events') = Len(events) - 1 /\ Len(events) \in Nat \ {0}
        /\ \A i \in 1 .. (Len(events) - 1) : events'[i] = events[i + 1]
        /\ Head(events) = events[1] /\ Head(events) \in Events
    OBVIOUS
  <1>2. DOMAIN events = 1 .. Len(events) /\ DOMAIN events' = 1 .. (Len(events) - 1)
    BY <1>1
  <1>3. ASSUME NEW e \in Queued, e # Head(events) PROVE e \in Queued'
    <2>1. PICK i \in 1 .. Len(events) : e = events[i]
      BY <1>2 DEF Queued
    <2>2. i # 1
      BY <1>1, <1>3, <2>1
    <2>3. i - 1 \in DOMAIN events' /\ events'[i - 1] = e
      BY <1>1, <1>2, <2>1, <2>2
    <2>4. QED BY <2>3 DEF Queued
  <1>4. QED BY <1>1, <1>3

LEMMA EventTypes ==
    /\ \A f \in Files : Path(f) \in Events
    /\ \A d \in Dirs : Overflow(d) \in Events /\ Failed(d) \in Events /\ Stopped(d) \in Events
  BY DEF Events

LEMMA EventKinds ==
    /\ \A f : Path(f).kind = "path" /\ Path(f).value = f
    /\ \A d : Overflow(d).kind = "overflow" /\ Overflow(d).value = d
  BY DEF Path, Overflow

---------------------------------------------------------------------------
(* Each step *)

\* The files, the kernel.
LEMMA ChangeKeeps ==
    ASSUME IInv, NEW f \in Files, Change(f) PROVE IInv'
  <1> USE DEF IInv
  <1> DEFINE d == DirOf[f]
  <1>0. d \in Dirs /\ DirOf \in [Files -> Dirs] /\ Matching \subseteq Files
    BY WatchLoopAssumption
  <1>1. UNCHANGED <<reader, names, events, dropped, overflowed, paths, pc, pending>>
    BY DEF Change, readerVars, loopVars
  <1>2. CASE reader[d] \in {"read", "offer", "mark"}
    <2>1. /\ kernel' = [kernel EXCEPT ![d] = Recorded(d, f)]
          /\ owed' = owed \cup ({f} \cap Matching)
          /\ lost' = lost \ {f} /\ unheard' = unheard \ {f}
      BY <1>2 DEF Change
    <2>2. /\ Recorded(d, f) \in [records : SUBSET Files, lost : BOOLEAN]
          /\ Recorded(d, f).lost => Recorded(d, f).records = {}
          /\ \/ Recorded(d, f).lost
             \/ Recorded(d, f).records = kernel[d].records \cup {f} /\ ~kernel[d].lost
      BY <1>0 DEF Recorded, CarrierType
    <2>3. CarrierType'
      BY <1>1, <2>1, <2>2 DEF CarrierType
    <2>4. HandsFree'
      BY <1>0, <1>1, <1>2, <2>1, <2>2 DEF HandsFree, CarrierType
    <2>5. ASSUME NEW g \in owed', pc' \in Looping PROVE Explained(g)'
      <3>1. /\ kernel'[d] = Recorded(d, f)
            /\ \A e \in Dirs \ {d} : kernel'[e] = kernel[e]
        BY <1>0, <2>1 DEF CarrierType
      <3>2. CASE g = f
        BY <1>1, <2>2, <3>1, <3>2 DEF Explained, Carried
      <3>3. CASE g # f
        <4>1. g \in owed /\ Explained(g)
          BY <1>1, <2>1, <2>5, <3>3 DEF LossHasACause, Explained
        <4>2. g \in Files
          BY <1>0, <4>1 DEF CarrierType
        <4>3. CASE DirOf[g] = d
          BY <1>1, <2>1, <2>2, <3>1, <3>3, <4>1, <4>3 DEF Explained, Carried, Queued
        <4>4. CASE DirOf[g] # d
          BY <1>0, <1>1, <2>1, <3>1, <3>3, <4>1, <4>2, <4>4 DEF Explained, Carried, Queued
        <4>5. QED BY <4>3, <4>4
      <3>4. QED BY <3>2, <3>3
    <2>6. QED BY <2>3, <2>4, <2>5 DEF LossHasACause, Explained
  <1>3. CASE reader[d] \notin {"read", "offer", "mark"}
    <2>1. UNCHANGED <<kernel, owed, lost, unheard>>
      BY <1>3 DEF Change
    <2>2. QED BY <1>1, <2>1 DEF CarrierType, HandsFree, LossHasACause, Carried, Queued
  <1>4. QED BY <1>2, <1>3

\* Offering an event: it is queued, or the reader goes on to mark the queue.
LEMMA OfferDoes ==
    ASSUME CarrierType, NEW d \in Dirs, NEW item \in Events, NEW left,
           Offer(d, item, left)
    PROVE  /\ events' \in Seq(Events) /\ Queued \subseteq Queued'
           /\ reader' \in [Dirs -> Stages]
           /\ \A e \in Dirs \ {d} : reader'[e] = reader[e]
           /\ \/ reader'[d] = "mark"
              \/ item \in Queued' /\ reader'[d] = Onward(left)
  <1>1. CASE Full
    BY <1>1 DEF Offer, Reads, CarrierType, Stages, Queued
  <1>2. CASE ~Full
    <2>1. events' = Append(events, item) /\ Reads(d, Onward(left))
      BY <1>2 DEF Offer
    <2>2. events' \in Seq(Events) /\ Queued' = Queued \cup {item}
      BY <2>1, Appending DEF CarrierType
    <2>3. QED BY <2>1, <2>2 DEF Reads, CarrierType, Stages, Onward
  <1>3. QED BY <1>1, <1>2

LEMMA ReaderKeeps ==
    ASSUME IInv, NEW d \in Dirs, Reader(d) \/ ReadFails(d) PROVE IInv'
  <1> USE DEF IInv
  <1>0. DirOf \in [Files -> Dirs] /\ owed \subseteq Files
    BY WatchLoopAssumption DEF CarrierType
  <1>1. UNCHANGED <<owed, lost, unheard, overflowed, paths, pc, pending>>
    BY DEF Reader, ReadFails, Opens, ReadCompletes, OfferNext, Mark, Fail, Leave,
           kernelVars, loopVars
  <1>2. pc # "start"
    BY DEF Reader, ReadFails, Opens, ReadCompletes, OfferNext, Mark, Fail, Leave, HandsFree
  <1>3. ASSUME pc \in Looping =>
                  \A f \in owed : Carried(f) => Carried(f)'
        PROVE  LossHasACause'
    BY <1>1, <1>3 DEF LossHasACause
  <1>4. CASE ReadCompletes(d)
    <2>1. /\ reader[d] = "read" /\ names[d] = {} /\ UNCHANGED dropped
          /\ kernel' = [kernel EXCEPT ![d] = [records |-> {}, lost |-> FALSE]]
      BY <1>4 DEF ReadCompletes, HandsFree
    <2>2. CASE kernel[d].lost /\ Offer(d, Overflow(d), {}) /\ UNCHANGED names
      <3>1. /\ events' \in Seq(Events) /\ Queued \subseteq Queued'
            /\ reader' \in [Dirs -> Stages]
            /\ \A e \in Dirs \ {d} : reader'[e] = reader[e]
            /\ reader'[d] = "mark" \/ Overflow(d) \in Queued'
        BY <2>2, OfferDoes, EventTypes
      <3>2. CarrierType' /\ HandsFree'
        BY <1>1, <1>2, <2>1, <2>2, <3>1 DEF CarrierType, HandsFree
      <3>3. ASSUME NEW f \in owed, Carried(f) PROVE Carried(f)'
        <4>1. CASE DirOf[f] = d
          BY <3>1, <4>1 DEF Carried
        <4>2. CASE DirOf[f] # d
          <5>1. DirOf[f] \in Dirs /\ kernel'[DirOf[f]] = kernel[DirOf[f]]
                /\ reader'[DirOf[f]] = reader[DirOf[f]]
            BY <1>0, <2>1, <3>1, <4>2 DEF CarrierType
          <5>2. QED BY <1>1, <2>1, <2>2, <3>1, <3>3, <5>1 DEF Carried
        <4>3. QED BY <4>1, <4>2
      <3>4. QED BY <1>3, <3>2, <3>3
    <2>3. CASE /\ kernel[d].records # {} /\ UNCHANGED events
               /\ names' = [names EXCEPT ![d] = kernel[d].records] /\ Reads(d, "offer")
      <3>1. ~kernel[d].lost /\ UNCHANGED Queued
        BY <2>3 DEF HandsFree, Queued
      <3>2. CarrierType' /\ HandsFree'
        BY <1>1, <1>2, <2>1, <2>3 DEF CarrierType, HandsFree, Reads, Stages
      <3>3. ASSUME NEW f \in owed, Carried(f) PROVE Carried(f)'
        <4>1. /\ names'[d] = kernel[d].records
              /\ \A e \in Dirs \ {d} : /\ names'[e] = names[e] /\ kernel'[e] = kernel[e]
                                       /\ reader'[e] = reader[e]
          BY <2>1, <2>3 DEF CarrierType, Reads
        <4>2. CASE DirOf[f] = d
          BY <1>1, <2>1, <3>1, <3>3, <4>1, <4>2 DEF Carried
        <4>3. CASE DirOf[f] # d
          BY <1>0, <1>1, <2>1, <3>1, <3>3, <4>1, <4>3 DEF Carried
        <4>4. QED BY <4>2, <4>3
      <3>4. QED BY <1>3, <3>2, <3>3
    <2>4. QED BY <1>4, <2>2, <2>3 DEF ReadCompletes
  <1>5. CASE OfferNext(d)
    <2>1. PICK f \in names[d] :
            /\ reader[d] = "offer" /\ Offer(d, Path(f), names[d] \ {f})
            /\ names' = [names EXCEPT ![d] = @ \ {f}]
            /\ UNCHANGED <<kernel, dropped>>
      BY <1>5 DEF OfferNext, kernelVars
    <2>2. f \in Files /\ Path(f) \in Events
      BY <2>1, EventTypes DEF CarrierType
    <2>3. /\ events' \in Seq(Events) /\ Queued \subseteq Queued'
          /\ reader' \in [Dirs -> Stages]
          /\ \A e \in Dirs \ {d} : reader'[e] = reader[e]
          /\ \/ reader'[d] = "mark"
             \/ Path(f) \in Queued' /\ reader'[d] = Onward(names[d] \ {f})
      BY <2>1, <2>2, OfferDoes
    <2>4. /\ names'[d] = names[d] \ {f}
          /\ \A e \in Dirs \ {d} : names'[e] = names[e]
      BY <2>1 DEF CarrierType
    <2>5. CarrierType' /\ HandsFree'
      BY <1>1, <1>2, <2>1, <2>3, <2>4 DEF CarrierType, HandsFree, Onward
    <2>6. ASSUME NEW g \in owed, Carried(g) PROVE Carried(g)'
      <3>1. CASE DirOf[g] = d
        BY <1>1, <2>1, <2>3, <2>4, <2>6, <3>1 DEF Carried
      <3>2. CASE DirOf[g] # d
        BY <1>0, <1>1, <2>1, <2>3, <2>4, <2>6, <3>2 DEF Carried
      <3>3. QED BY <3>1, <3>2
    <2>7. QED BY <1>3, <2>5, <2>6
  <1>6. CASE Mark(d)
    <2>1. /\ reader[d] = "mark" /\ dropped' = dropped \cup {d}
          /\ reader' = [reader EXCEPT ![d] = Onward(names[d])]
          /\ UNCHANGED <<kernel, names, events>>
      BY <1>6 DEF Mark, Reads, kernelVars
    <2>2. CarrierType' /\ HandsFree'
      BY <1>1, <1>2, <2>1 DEF CarrierType, HandsFree, Onward, Stages
    <2>3. ASSUME NEW f \in owed, Carried(f) PROVE Carried(f)'
      BY <1>0, <1>1, <2>1, <2>3 DEF Carried, CarrierType, Queued
    <2>4. QED BY <1>3, <2>2, <2>3
  <1>7. CASE Opens(d) \/ ReadFails(d) \/ Leave(d)
    <2>1. PICK stage \in Stages \ {"mark"} :
            /\ reader[d] \in {"open", "read"} /\ reader' = [reader EXCEPT ![d] = stage]
            /\ UNCHANGED <<kernel, names, events, dropped>>
      BY <1>7 DEF Opens, ReadFails, Leave, Reads, kernelVars, Stages
    <2>2. CarrierType' /\ HandsFree'
      BY <1>1, <1>2, <2>1 DEF CarrierType, HandsFree
    <2>3. ASSUME NEW f \in owed, Carried(f) PROVE Carried(f)'
      BY <1>0, <1>1, <2>1, <2>3 DEF Carried, CarrierType, Queued
    <2>4. QED BY <1>3, <2>2, <2>3
  <1>8. CASE Fail(d)
    <2>1. /\ reader[d] = "fail" /\ reader' = [reader EXCEPT ![d] = "gone"]
          /\ events' = Append(events, Failed(d))
          /\ UNCHANGED <<kernel, names, dropped>>
      BY <1>8 DEF Fail, Reads, kernelVars
    <2>2. events' \in Seq(Events) /\ Queued' = Queued \cup {Failed(d)}
      BY <2>1, Appending, EventTypes DEF CarrierType
    <2>3. CarrierType' /\ HandsFree'
      BY <1>1, <1>2, <2>1, <2>2 DEF CarrierType, HandsFree, Stages
    <2>4. ASSUME NEW f \in owed, Carried(f) PROVE Carried(f)'
      BY <1>0, <1>1, <2>1, <2>2, <2>4 DEF Carried, CarrierType
    <2>5. QED BY <1>3, <2>3, <2>4
  <1>9. QED BY <1>4, <1>5, <1>6, <1>7, <1>8 DEF Reader

\* The loop.
LEMMA LoopKeeps ==
    ASSUME IInv, Loop \/ Tick \/ Retire PROVE IInv'
  <1> USE DEF IInv
  <1>0. DirOf \in [Files -> Dirs] /\ owed \subseteq Matching /\ owed \subseteq Files
    BY WatchLoopAssumption DEF CarrierType
  <1>1. CASE StartSource
    <2>1. reader' = [d \in Dirs |-> "open"] /\ pc = "start" /\ pc' = "check"
          /\ UNCHANGED <<kernel, names, events, owed>>
      BY <1>1 DEF StartSource, Goes, kernelVars
    <2>2. owed' = {} /\ \A d \in Dirs : names[d] = {}
      BY <2>1 DEF HandsFree
    <2>3. CarrierType' /\ HandsFree'
      BY <2>1, <2>2 DEF CarrierType, HandsFree, Stages
    <2>4. QED BY <2>2, <2>3 DEF LossHasACause
  <1>2. ASSUME UNCHANGED <<kernel, reader, names, owed>>, events' \in Seq(Events),
               pc' = "start" => pc = "start",
               \A f \in owed : pc' \in Looping /\ Explained(f) => Explained(f)',
               pc' \in Looping => pc \in Looping
        PROVE  IInv'
    <2>1. CarrierType' /\ HandsFree'
      BY <1>2 DEF CarrierType, HandsFree
    <2>2. LossHasACause'
      BY <1>2 DEF LossHasACause, Explained
    <2>3. QED BY <2>1, <2>2
  <1> USE DEF Goes, kernelVars, readerVars, loopVars
  <1>3. CASE Tick \/ Retire \/ Check \/ Drained \/ NothingComes \/ NotYet \/ RunEnds \/ Joined
    <2>1. /\ UNCHANGED <<kernel, readerVars, owed, lost, unheard, overflowed, paths, pending>>
          /\ (pc' = "start" => pc = "start") /\ (pc' \in Looping => pc \in Looping)
      BY <1>3 DEF Tick, Retire, Check, Drained, NothingComes, NotYet, RunEnds, Joined, Looping
    <2>2. events' \in Seq(Events) /\ UNCHANGED Queued
      BY <2>1 DEF CarrierType, Queued
    <2>3. ASSUME NEW f \in owed, Explained(f) PROVE Explained(f)'
      BY <2>1, <2>2, <2>3 DEF Explained, Carried
    <2>4. QED BY <1>2, <2>1, <2>2, <2>3
  <1>4. CASE Get
    <2>1. /\ UNCHANGED <<kernel, reader, names, dropped, owed, lost, unheard, pending>>
          /\ events # <<>> /\ events' = Tail(events)
          /\ paths' = IF Head(events).kind = "path" THEN paths \cup {Head(events).value} ELSE paths
          /\ overflowed' = IF Head(events).kind = "overflow"
                             THEN overflowed \cup {Head(events).value} ELSE overflowed
          /\ pc \in Looping /\ pc' # "start"
      BY <1>4 DEF Get, Take, Looping
    <2>2. /\ events' \in Seq(Events)
          /\ Queued \subseteq Queued' \cup {Head(events)}
      BY <2>1, Taking DEF CarrierType
    <2>3. ASSUME NEW f \in owed, Explained(f) PROVE Explained(f)'
      <3>1. Path(f) \in Queued => Path(f) \in Queued' \/ f \in paths'
        BY <2>1, <2>2, EventKinds
      <3>2. Overflow(DirOf[f]) \in Queued =>
              Overflow(DirOf[f]) \in Queued' \/ DirOf[f] \in overflowed'
        BY <2>1, <2>2, EventKinds
      <3>3. paths \subseteq paths' /\ overflowed \subseteq overflowed'
        BY <2>1
      <3>4. QED BY <2>1, <2>3, <3>1, <3>2, <3>3 DEF Explained, Carried
    <2>4. QED BY <1>2, <2>1, <2>2, <2>3
  <1>5. CASE LookAtFlags
    <2>1. /\ UNCHANGED <<kernel, reader, names, events, owed, lost, unheard, paths, pending>>
          /\ overflowed' = overflowed \cup dropped
          /\ pc \in Looping /\ pc' # "start"
      BY <1>5 DEF LookAtFlags, Looping
    <2>2. events' \in Seq(Events) /\ UNCHANGED Queued
      BY <2>1 DEF CarrierType, Queued
    <2>3. ASSUME NEW f \in owed, Explained(f) PROVE Explained(f)'
      BY <2>1, <2>2, <2>3 DEF Explained, Carried
    <2>4. QED BY <1>2, <2>1, <2>2, <2>3
  <1>6. CASE Rescan
    <2> DEFINE there == {f \in exists : DirOf[f] \in overflowed}
               missed == {f \in owed : DirOf[f] \in overflowed}
    <2>1. PICK found \in SUBSET there :
            /\ paths' = paths \cup found
            /\ lost' = lost \cup ((missed \cap there) \ found)
      BY <1>6 DEF Rescan
    <2>2. /\ UNCHANGED <<kernel, reader, names, events, dropped, owed, pending>>
          /\ unheard' = unheard \cup (missed \ there)
          /\ pc \in Looping /\ pc' # "start"
      BY <1>6 DEF Rescan, Looping
    <2>3. events' \in Seq(Events) /\ UNCHANGED Queued
      BY <2>2 DEF CarrierType, Queued
    <2>4. ASSUME NEW f \in owed, Explained(f) PROVE Explained(f)'
      <3>1. CASE DirOf[f] \in overflowed
        <4>1. f \in missed
          BY <3>1
        <4>2. QED BY <2>1, <2>2, <4>1 DEF Explained, Carried
      <3>2. CASE DirOf[f] \notin overflowed
        BY <2>1, <2>2, <2>3, <2>4, <3>2 DEF Explained, Carried
      <3>3. QED BY <3>1, <3>2
    <2>5. QED BY <1>2, <2>2, <2>3, <2>4
  <1>7. CASE Collect
    <2>1. /\ UNCHANGED <<kernel, reader, names, events, dropped, owed, lost, unheard, overflowed>>
          /\ pending' = pending \cup (paths \cap Matching)
          /\ pc \in Looping /\ pc' # "start"
      BY <1>7 DEF Collect, Looping
    <2>2. events' \in Seq(Events) /\ UNCHANGED Queued
      BY <2>1 DEF CarrierType, Queued
    <2>3. ASSUME NEW f \in owed, Explained(f) PROVE Explained(f)'
      BY <1>0, <2>1, <2>2, <2>3 DEF Explained, Carried
    <2>4. QED BY <1>2, <2>1, <2>2, <2>3
  <1>8. CASE Fire
    <2>1. /\ UNCHANGED <<kernel, reader, names, events, dropped, lost, unheard, overflowed, paths>>
          /\ owed' = owed \ pending
          /\ pc \in Looping /\ pc' # "start"
      BY <1>8 DEF Fire, Looping
    <2>2. CarrierType' /\ HandsFree'
      BY <2>1 DEF CarrierType, HandsFree
    <2>3. ASSUME NEW f \in owed' PROVE Explained(f)'
      <3>1. f \notin pending /\ Explained(f)
        BY <2>1, <2>3 DEF LossHasACause, Explained
      <3>2. QED BY <2>1, <3>1 DEF Explained, Carried, Queued
    <2>4. QED BY <2>2, <2>3 DEF LossHasACause, Explained
  <1>9. CASE OverLimit
    <2>1. /\ UNCHANGED <<kernel, reader, names, events, dropped, owed, unheard, overflowed, paths>>
          /\ lost' = lost \cup pending
          /\ pc \in Looping /\ pc' # "start"
      BY <1>9 DEF OverLimit, Looping
    <2>2. events' \in Seq(Events) /\ UNCHANGED Queued
      BY <2>1 DEF CarrierType, Queued
    <2>3. ASSUME NEW f \in owed, Explained(f) PROVE Explained(f)'
      BY <2>1, <2>2, <2>3 DEF Explained, Carried
    <2>4. QED BY <1>2, <2>1, <2>2, <2>3
  <1>10. CASE Stop
    <2>1. /\ UNCHANGED <<kernel, reader, names, owed>> /\ pc' = "join"
          /\ UNCHANGED events \/ \E d \in Dirs : events' = Append(events, Stopped(d))
      BY <1>10 DEF Stop
    <2>2. events' \in Seq(Events)
      BY <2>1, Appending, EventTypes DEF CarrierType
    <2>3. QED BY <1>2, <2>1, <2>2 DEF Looping
  <1>11. QED BY <1>1, <1>3, <1>4, <1>5, <1>6, <1>7, <1>8, <1>9, <1>10 DEF Loop

---------------------------------------------------------------------------
(* The invariant *)

LEMMA Initially == Init => IInv
  BY DEF Init, IInv, CarrierType, HandsFree, LossHasACause, Stages

LEMMA Invariance == Spec => []IInv
  <1>1. ASSUME IInv, UNCHANGED vars PROVE IInv'
    BY <1>1 DEF IInv, CarrierType, HandsFree, LossHasACause, Carried, Queued,
                vars, kernelVars, readerVars, loopVars
  <1>2. IInv /\ [Next]_vars => IInv'
    BY <1>1, ChangeKeeps, ReaderKeeps, LoopKeeps DEF Next
  <1>3. QED BY Initially, <1>2, PTL DEF Spec

\* While the loop goes on, what changed is carried towards a run, or a limit or
\* a removal explains why it is not.
THEOREM LossAlwaysHasACause == Spec => []LossHasACause
  <1>1. IInv => LossHasACause
    BY DEF IInv
  <1>2. QED BY <1>1, Invariance, PTL
=============================================================================
