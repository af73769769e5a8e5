-------------------------- MODULE ForwarderProofs --------------------------
(***************************************************************************)
(* Proofs about Forwarder, for every finite set of concurrent calls and    *)
(* every finite set of destinations.                                       *)
(*                                                                         *)
(* The wait group counts exactly the goroutines between go and wg.Done     *)
(* (WgCounts).  The closing goroutine starts after the loop, so a counter  *)
(* of zero means that all goroutines are done; hence nobody meets a closed *)
(* channel, and a drained closed channel means that nothing is left.       *)
(***************************************************************************)
EXTENDS Forwarder, FiniteSetTheorems, TLAPS

Busy(c) == {d \in Dests : g[<<c, d>>] \in Counted}

WgCounts == \A c \in Calls : wg[c] = Cardinality(Busy(c))

Past == {"sent", "left", "done"}

\* How the control state of a call, its goroutines and its channel agree.
LoopState(c) ==
  /\ caller[c] = "idle" => targets[c] = {}
  /\ caller[c] \in {"collect", "returned"} => todo[c] = {} \/ targets[c] = {}
  /\ todo[c] \subseteq targets[c]
  /\ \A d \in Dests : g[<<c, d>>] = "none" <=> d \in todo[c] \/ d \notin targets[c]

ClosedState(c) ==
  /\ closed[c] => caller[c] \in {"collect", "returned"}
  /\ closed[c] => \A d \in Dests : g[<<c, d>>] \notin Counted
  /\ caller[c] = "returned" => buf[c] = {} /\ (closed[c] \/ targets[c] = {})

ResultState(c) ==
  /\ \A x \in buf[c] \cup results[c] : g[<<c, x[1]>>] \in Past
  /\ ctxDone[c] \/ \A d \in Dests :
       g[<<c, d>>] \in Past => \E x \in buf[c] \cup results[c] : x[1] = d

Consistent(c) == LoopState(c) /\ ClosedState(c) /\ ResultState(c)

AllConsistent == \A c \in Calls : Consistent(c)

IInv == TypeOK /\ WgCounts /\ LoadIsInFlight /\ AllConsistent

USE DEF Holding, InFlight, Counted, Places, Past

-----------------------------------------------------------------------------
(* Cardinality of a set that gains or loses one element.                   *)

\* A goroutine that starts is counted once more.
LEMMA CardinalityGain ==
  ASSUME NEW S, IsFiniteSet(S), NEW x, x \notin S
  PROVE  IsFiniteSet(S \cup {x}) /\ Cardinality(S \cup {x}) = Cardinality(S) + 1
BY FS_AddElement

\* A goroutine that ends is counted once less.
LEMMA CardinalityLoss ==
  ASSUME NEW S, IsFiniteSet(S), NEW x \in S
  PROVE  IsFiniteSet(S \ {x}) /\ Cardinality(S \ {x}) = Cardinality(S) - 1
BY FS_RemoveElement, FS_CardinalityType

\* The sets counted are finite.
LEMMA FiniteSets ==
  ASSUME TypeOK
  PROVE  IsFiniteSet(Loading) /\ \A c \in Calls : IsFiniteSet(Busy(c))
<1>1. IsFiniteSet(Calls \X Dests)
  BY ForwarderAssumption, FS_Product
<1>2. Loading \subseteq Calls \X Dests
  BY DEF Loading
<1>3. \A c \in Calls : Busy(c) \subseteq Dests
  BY DEF Busy
<1> QED
  BY <1>1, <1>2, <1>3, ForwarderAssumption, FS_Subset

-----------------------------------------------------------------------------
LEMMA InitIInv == Init => IInv
<1> SUFFICES ASSUME Init PROVE IInv
  OBVIOUS
<1>1. Loading = {} /\ \A c \in Calls : Busy(c) = {}
  BY DEF Init, Loading, Busy
<1>2. Cardinality({}) = 0
  BY FS_EmptySet
<1>3. TypeOK
  BY DEF Init, TypeOK
<1>4. WgCounts /\ LoadIsInFlight
  BY <1>1, <1>2 DEF Init, WgCounts, LoadIsInFlight
<1>5. AllConsistent
  BY DEF Init, AllConsistent, Consistent, LoopState, ClosedState, ResultState
<1> QED
  BY <1>3, <1>4, <1>5 DEF IInv

\* Each step keeps the types, given that the counters it decrements are
\* positive.
LEMMA TypeStep ==
  ASSUME TypeOK, WgCounts, LoadIsInFlight, [Next]_vars
  PROVE  TypeOK'
<1> USE DEF TypeOK, call, channel
<1>1. ASSUME NEW c \in Calls, NEW D \in SUBSET Dests, Call(c, D) PROVE TypeOK'
  BY <1>1 DEF Call
<1>2. ASSUME NEW c \in Calls, Cancel(c) PROVE TypeOK'
  BY <1>2 DEF Cancel
<1>3. ASSUME NEW c \in Calls, NEW d \in Dests, Spawn(c, d) PROVE TypeOK'
  BY <1>3 DEF Spawn, AddedBySpawn
<1>4. ASSUME NEW c \in Calls, EndLoop(c) PROVE TypeOK'
  BY <1>4 DEF EndLoop
<1>5. ASSUME NEW c \in Calls, CloseChan(c) PROVE TypeOK'
  BY <1>5 DEF CloseChan
<1>6. ASSUME NEW c \in Calls, Collect(c) PROVE TypeOK'
  BY <1>6 DEF Collect
<1>7. ASSUME NEW c \in Calls, Return(c) PROVE TypeOK'
  BY <1>7 DEF Return
<1>8. ASSUME NEW c \in Calls, NEW d \in Dests, Enter(c, d) PROVE TypeOK'
  BY <1>8 DEF Enter
<1>9. ASSUME NEW c \in Calls, NEW d \in Dests, NEW o \in Holding, Reply(c, d, o)
      PROVE  TypeOK'
  BY <1>9 DEF Reply
<1>10. ASSUME NEW c \in Calls, NEW d \in Dests, SendResult(c, d) PROVE TypeOK'
  <2>1. buf' \in [Calls -> SUBSET (Dests \X BOOLEAN)]
    <3>1. <<d, g[<<c, d>>] = "ok">> \in Dests \X BOOLEAN
      OBVIOUS
    <3> QED
      BY <1>10, <3>1 DEF SendResult
  <2>2. g' \in [Calls \X Dests -> Places]
    BY <1>10 DEF SendResult
  <2> QED
    BY <1>10, <2>1, <2>2 DEF SendResult
<1>11. ASSUME NEW c \in Calls, NEW d \in Dests, Leave(c, d) PROVE TypeOK'
  <2>1. <<c, d>> \in Loading
    BY <1>11 DEF Leave, Loading
  <2>2. Cardinality(Loading \ {<<c, d>>}) = load - 1
        /\ Cardinality(Loading \ {<<c, d>>}) \in Nat
    BY <2>1, FiniteSets, CardinalityLoss, FS_CardinalityType DEF LoadIsInFlight
  <2> QED
    BY <1>11, <2>2 DEF Leave, Decremented
<1>12. ASSUME NEW c \in Calls, NEW d \in Dests, Done(c, d) PROVE TypeOK'
  <2>1. d \in Busy(c)
    BY <1>12 DEF Done, Busy
  <2>2. Cardinality(Busy(c) \ {d}) = wg[c] - 1
        /\ Cardinality(Busy(c) \ {d}) \in Nat
    BY <2>1, FiniteSets, CardinalityLoss, FS_CardinalityType DEF WgCounts
  <2> QED
    BY <1>12, <2>2 DEF Done, Finished
<1>13. CASE UNCHANGED vars
  BY <1>13 DEF vars
<1> QED
  BY <1>1, <1>2, <1>3, <1>4, <1>5, <1>6, <1>7, <1>8, <1>9, <1>10, <1>11,
     <1>12, <1>13 DEF Next, Caller, Goroutine

\* The two counters follow the goroutines.
LEMMA CountStep ==
  ASSUME TypeOK, WgCounts, LoadIsInFlight, AllConsistent, [Next]_vars
  PROVE  WgCounts' /\ LoadIsInFlight'
<1> USE DEF call, channel
<1>1. ASSUME g' = g, wg' = wg, load' = load PROVE WgCounts' /\ LoadIsInFlight'
  <2>1. Loading' = Loading /\ \A c \in Calls : Busy(c)' = Busy(c)
    BY <1>1 DEF Loading, Busy
  <2> QED
    BY <1>1, <2>1 DEF WgCounts, LoadIsInFlight
<1>2. ASSUME NEW c \in Calls, NEW d \in Dests, Spawn(c, d)
      PROVE  WgCounts' /\ LoadIsInFlight'
  <2>1. g[<<c, d>>] = "none"
    BY <1>2 DEF Spawn, AllConsistent, Consistent, LoopState, TypeOK
  <2>2. Loading' = Loading /\ load' = load
    BY <1>2, <2>1 DEF Spawn, Loading, TypeOK
  <2>3. Busy(c)' = Busy(c) \cup {d} /\ d \notin Busy(c)
    BY <1>2, <2>1 DEF Spawn, Busy, TypeOK
  <2>4. \A b \in Calls \ {c} : Busy(b)' = Busy(b) /\ wg'[b] = wg[b]
    BY <1>2 DEF Spawn, Busy, TypeOK
  <2>5. wg'[c] = wg[c] + 1
    BY <1>2 DEF Spawn, AddedBySpawn, TypeOK
  <2>6. wg'[c] = Cardinality(Busy(c)')
    BY <2>3, <2>5, FiniteSets, CardinalityGain DEF WgCounts
  <2> QED
    BY <2>2, <2>4, <2>6 DEF WgCounts, LoadIsInFlight
<1>3. ASSUME NEW c \in Calls, NEW d \in Dests, Enter(c, d)
      PROVE  WgCounts' /\ LoadIsInFlight'
  <2>1. Loading' = Loading \cup {<<c, d>>} /\ <<c, d>> \notin Loading
    BY <1>3 DEF Enter, Loading, TypeOK
  <2>2. \A b \in Calls : Busy(b)' = Busy(b) /\ wg'[b] = wg[b]
    BY <1>3 DEF Enter, Busy, TypeOK
  <2>3. load' = Cardinality(Loading')
    BY <1>3, <2>1, FiniteSets, CardinalityGain DEF Enter, LoadIsInFlight
  <2> QED
    BY <2>2, <2>3 DEF WgCounts, LoadIsInFlight
<1>4. ASSUME NEW c \in Calls, NEW d \in Dests, NEW o \in Holding \cup {"sent"},
             g[<<c, d>>] \in Holding \cup {"doing"},
             g' = [g EXCEPT ![<<c, d>>] = o] /\ UNCHANGED <<wg, load>>
      PROVE  WgCounts' /\ LoadIsInFlight'
  <2>1. Loading' = Loading /\ \A b \in Calls : Busy(b)' = Busy(b)
    BY <1>4 DEF Loading, Busy, TypeOK
  <2> QED
    BY <1>4, <2>1 DEF WgCounts, LoadIsInFlight
<1>5. ASSUME NEW c \in Calls, NEW d \in Dests, Leave(c, d)
      PROVE  WgCounts' /\ LoadIsInFlight'
  <2>1. Loading' = Loading \ {<<c, d>>} /\ <<c, d>> \in Loading
    BY <1>5 DEF Leave, Loading, TypeOK
  <2>2. \A b \in Calls : Busy(b)' = Busy(b) /\ wg'[b] = wg[b]
    BY <1>5 DEF Leave, Busy, TypeOK
  <2>3. load' = Cardinality(Loading')
    BY <1>5, <2>1, FiniteSets, CardinalityLoss
       DEF Leave, Decremented, LoadIsInFlight
  <2> QED
    BY <2>2, <2>3 DEF WgCounts, LoadIsInFlight
<1>6. ASSUME NEW c \in Calls, NEW d \in Dests, Done(c, d)
      PROVE  WgCounts' /\ LoadIsInFlight'
  <2>1. Loading' = Loading /\ load' = load
    BY <1>6 DEF Done, Loading, TypeOK
  <2>2. Busy(c)' = Busy(c) \ {d} /\ d \in Busy(c)
    BY <1>6 DEF Done, Busy, TypeOK
  <2>3. \A b \in Calls \ {c} : Busy(b)' = Busy(b) /\ wg'[b] = wg[b]
    BY <1>6 DEF Done, Busy, TypeOK
  <2>4. wg'[c] = wg[c] - 1
    BY <1>6 DEF Done, Finished, TypeOK
  <2>5. wg'[c] = Cardinality(Busy(c)')
    BY <2>2, <2>4, FiniteSets, CardinalityLoss DEF WgCounts
  <2> QED
    BY <2>1, <2>3, <2>5 DEF WgCounts, LoadIsInFlight
<1>7. ASSUME NEW c \in Calls,
             \/ \E D \in SUBSET Dests : Call(c, D)
             \/ Cancel(c) \/ EndLoop(c) \/ CloseChan(c) \/ Collect(c) \/ Return(c)
      PROVE  UNCHANGED <<g, wg, load>>
  BY <1>7 DEF Call, Cancel, EndLoop, CloseChan, Collect, Return
<1>8. ASSUME NEW c \in Calls, NEW d \in Dests,
             SendResult(c, d) \/ (\E o \in Holding : Reply(c, d, o))
      PROVE  WgCounts' /\ LoadIsInFlight'
  BY <1>4, <1>8 DEF SendResult, Reply
<1>9. CASE UNCHANGED vars
  BY <1>1, <1>9 DEF vars
<1> QED
  BY <1>1, <1>2, <1>3, <1>5, <1>6, <1>7, <1>8, <1>9 DEF Next, Caller, Goroutine

-----------------------------------------------------------------------------
\* The wait group is at zero only when no goroutine is counted.
LEMMA ZeroMeansNoneBusy ==
  ASSUME TypeOK, WgCounts, NEW c \in Calls, wg[c] = 0
  PROVE  \A d \in Dests : g[<<c, d>>] \notin Counted
<1>1. Busy(c) = {}
  BY FiniteSets, FS_EmptySet DEF WgCounts
<1> QED
  BY <1>1 DEF Busy

\* A step of one call leaves the other calls as they are.
Untouched(b) ==
  /\ caller'[b] = caller[b] /\ targets'[b] = targets[b] /\ todo'[b] = todo[b]
  /\ ctxDone'[b] = ctxDone[b] /\ closed'[b] = closed[b]
  /\ buf'[b] = buf[b] /\ results'[b] = results[b]
  /\ \A d \in Dests : g'[<<b, d>>] = g[<<b, d>>]

\* Control state, goroutines and channel keep agreeing.
LEMMA ConsistentStep ==
  ASSUME TypeOK, WgCounts, AllConsistent, [Next]_vars
  PROVE  AllConsistent'
<1> USE DEF call, channel
<1>1. ASSUME NEW b \in Calls, Untouched(b) PROVE Consistent(b)'
  <2> USE <1>1 DEF Untouched, AllConsistent, Consistent
  <2>1. LoopState(b)'
    BY DEF LoopState
  <2>2. ClosedState(b)'
    BY DEF ClosedState
  <2>3. ResultState(b)'
    <3>1. \A x \in (buf[b] \cup results[b]) : x[1] \in Dests
      BY DEF TypeOK
    <3> QED
      BY <3>1 DEF ResultState
  <2> QED
    BY <2>1, <2>2, <2>3
<1>2. ASSUME NEW c \in Calls, NEW D \in SUBSET Dests, Call(c, D)
      PROVE  Consistent(c)' /\ \A b \in Calls \ {c} : Untouched(b)
  <2> USE <1>2 DEF Call, TypeOK
  <2>1. \A b \in Calls \ {c} : Untouched(b)
    BY DEF Untouched
  <2>2. LoopState(c)'
    BY DEF LoopState, AllConsistent, Consistent
  <2>3. ClosedState(c)'
    <3>1. \A x \in buf[c] : x[1] \in Dests /\ g[<<c, x[1]>>] \in Past
      BY DEF ResultState, AllConsistent, Consistent
    <3>2. \A d \in Dests : g[<<c, d>>] = "none"
      BY DEF LoopState, AllConsistent, Consistent
    <3>3. buf[c] = {}
      BY <3>1, <3>2
    <3> QED
      BY <3>3 DEF ClosedState, AllConsistent, Consistent
  <2>4. ResultState(c)'
    BY DEF ResultState, LoopState, AllConsistent, Consistent
  <2> QED
    BY <2>1, <2>2, <2>3, <2>4 DEF Consistent
<1>3. ASSUME NEW c \in Calls, Cancel(c)
      PROVE  Consistent(c)' /\ \A b \in Calls \ {c} : Untouched(b)
  <2> USE <1>3 DEF Cancel, TypeOK
  <2>1. \A b \in Calls \ {c} : Untouched(b)
    BY DEF Untouched
  <2>2. LoopState(c)'
    BY DEF LoopState, AllConsistent, Consistent
  <2>3. ClosedState(c)'
    BY DEF ClosedState, LoopState, AllConsistent, Consistent
  <2>4. ResultState(c)'
    BY DEF ResultState, LoopState, AllConsistent, Consistent
  <2> QED
    BY <2>1, <2>2, <2>3, <2>4 DEF Consistent
<1>4. ASSUME NEW c \in Calls, NEW d \in Dests, Spawn(c, d)
      PROVE  Consistent(c)' /\ \A b \in Calls \ {c} : Untouched(b)
  <2> USE <1>4 DEF Spawn, TypeOK
  <2>1. \A b \in Calls \ {c} : Untouched(b)
    BY DEF Untouched
  <2>2. LoopState(c)'
    BY DEF LoopState, AllConsistent, Consistent
  <2>3. ClosedState(c)'
    BY DEF ClosedState, LoopState, AllConsistent, Consistent
  <2>4. ResultState(c)'
    BY DEF ResultState, LoopState, AllConsistent, Consistent
  <2> QED
    BY <2>1, <2>2, <2>3, <2>4 DEF Consistent
<1>5. ASSUME NEW c \in Calls, EndLoop(c)
      PROVE  Consistent(c)' /\ \A b \in Calls \ {c} : Untouched(b)
  <2> USE <1>5 DEF EndLoop, TypeOK
  <2>1. \A b \in Calls \ {c} : Untouched(b)
    BY DEF Untouched
  <2>2. LoopState(c)'
    BY DEF LoopState, AllConsistent, Consistent
  <2>3. ClosedState(c)'
    BY DEF ClosedState, LoopState, AllConsistent, Consistent
  <2>4. ResultState(c)'
    BY DEF ResultState, LoopState, AllConsistent, Consistent
  <2> QED
    BY <2>1, <2>2, <2>3, <2>4 DEF Consistent
<1>6. ASSUME NEW c \in Calls, CloseChan(c)
      PROVE  Consistent(c)' /\ \A b \in Calls \ {c} : Untouched(b)
  <2> USE <1>6 DEF CloseChan, CloserStarted, TypeOK
  <2>1. \A b \in Calls \ {c} : Untouched(b)
    BY DEF Untouched
  <2>2. LoopState(c)'
    BY DEF LoopState, AllConsistent, Consistent
  <2>3. ClosedState(c)'
    BY ZeroMeansNoneBusy DEF ClosedState, LoopState, AllConsistent, Consistent
  <2>4. ResultState(c)'
    BY DEF ResultState, LoopState, AllConsistent, Consistent
  <2> QED
    BY <2>1, <2>2, <2>3, <2>4 DEF Consistent
<1>7. ASSUME NEW c \in Calls, Collect(c)
      PROVE  Consistent(c)' /\ \A b \in Calls \ {c} : Untouched(b)
  <2> USE <1>7 DEF Collect, TypeOK
  <2>1. \A b \in Calls \ {c} : Untouched(b)
    BY DEF Untouched
  <2>2. LoopState(c)'
    BY DEF LoopState, AllConsistent, Consistent
  <2>3. ClosedState(c)'
    BY DEF ClosedState, LoopState, AllConsistent, Consistent
  <2>4. ResultState(c)'
    BY DEF ResultState, LoopState, AllConsistent, Consistent
  <2> QED
    BY <2>1, <2>2, <2>3, <2>4 DEF Consistent
<1>8. ASSUME NEW c \in Calls, Return(c)
      PROVE  Consistent(c)' /\ \A b \in Calls \ {c} : Untouched(b)
  <2> USE <1>8 DEF Return, Exhausted, TypeOK
  <2>1. \A b \in Calls \ {c} : Untouched(b)
    BY DEF Untouched
  <2>2. LoopState(c)'
    BY DEF LoopState, AllConsistent, Consistent
  <2>3. ClosedState(c)'
    BY DEF ClosedState, LoopState, AllConsistent, Consistent
  <2>4. ResultState(c)'
    BY DEF ResultState, LoopState, AllConsistent, Consistent
  <2> QED
    BY <2>1, <2>2, <2>3, <2>4 DEF Consistent
<1>9. ASSUME NEW c \in Calls, NEW d \in Dests, SendResult(c, d)
      PROVE  Consistent(c)' /\ \A b \in Calls \ {c} : Untouched(b)
  <2> USE <1>9 DEF SendResult, MayDrop, TypeOK
  <2>1. \A b \in Calls \ {c} : Untouched(b)
    BY DEF Untouched
  <2>2. LoopState(c)'
    BY DEF LoopState, AllConsistent, Consistent
  <2>3. ClosedState(c)'
    BY DEF ClosedState, LoopState, AllConsistent, Consistent
  <2>4. ResultState(c)'
    <3> DEFINE x == <<d, g[<<c, d>>] = "ok">>
    <3>1. \A y \in buf[c] \cup results[c] : y[1] \in Dests
      OBVIOUS
    <3>2. ResultState(c)
      BY DEF AllConsistent, Consistent
    <3>3. g'[<<c, d>>] = "sent"
          /\ \A b \in Dests \ {d} : g'[<<c, b>>] = g[<<c, b>>]
      OBVIOUS
    <3>4. \A y \in buf[c] \cup results[c] \cup {x} : g'[<<c, y[1]>>] \in Past
      BY <3>1, <3>2, <3>3 DEF ResultState
    <3>5. results'[c] = results[c] /\ ctxDone' = ctxDone
      OBVIOUS
    <3>6. CASE buf'[c] = buf[c] \cup {x}
      <4>1. ctxDone[c] \/ \A b \in Dests :
              g'[<<c, b>>] \in Past =>
                \E y \in buf'[c] \cup results'[c] : y[1] = b
        <5>1. SUFFICES ASSUME ~ctxDone[c], NEW b \in Dests, g'[<<c, b>>] \in Past
                       PROVE  \E y \in buf'[c] \cup results'[c] : y[1] = b
          OBVIOUS
        <5>2. CASE b = d
          <6>1. x \in buf'[c] /\ x[1] = b
            BY <3>6, <5>2
          <6> QED
            BY <6>1
        <5>3. CASE b # d
          <6>1. g[<<c, b>>] \in Past
            BY <3>3, <5>1, <5>3
          <6> HIDE DEF x
          <6> QED
            BY <3>2, <3>5, <3>6, <5>1, <6>1 DEF ResultState
        <5> QED
          BY <5>2, <5>3
      <4> QED
        BY <3>4, <3>5, <3>6, <4>1 DEF ResultState
    <3>7. CASE buf'[c] = buf[c] /\ ctxDone[c]
      BY <3>4, <3>5, <3>7 DEF ResultState
    <3> QED
      BY <3>6, <3>7
  <2> QED
    BY <2>1, <2>2, <2>3, <2>4 DEF Consistent
<1>10. ASSUME NEW c \in Calls, NEW d \in Dests, Enter(c, d)
      PROVE  Consistent(c)' /\ \A b \in Calls \ {c} : Untouched(b)
  <2> USE <1>10 DEF Enter, TypeOK
  <2>1. \A b \in Calls \ {c} : Untouched(b)
    BY DEF Untouched
  <2>2. LoopState(c)'
    BY DEF LoopState, AllConsistent, Consistent
  <2>3. ClosedState(c)'
    BY DEF ClosedState, LoopState, AllConsistent, Consistent
  <2>4. ResultState(c)'
    <3>1. \A x \in buf[c] \cup results[c] : x[1] \in Dests
      OBVIOUS
    <3>2. ResultState(c)
      BY DEF AllConsistent, Consistent
    <3>3. \A x \in buf[c] \cup results[c] : g'[<<c, x[1]>>] \in Past
      BY <3>1, <3>2 DEF ResultState
    <3>4. \A b \in Dests : g'[<<c, b>>] \in Past => g[<<c, b>>] \in Past
      OBVIOUS
    <3> QED
      BY <3>2, <3>3, <3>4 DEF ResultState
  <2> QED
    BY <2>1, <2>2, <2>3, <2>4 DEF Consistent
<1>11. ASSUME NEW c \in Calls, NEW d \in Dests, NEW o \in Holding, Reply(c, d, o)
      PROVE  Consistent(c)' /\ \A b \in Calls \ {c} : Untouched(b)
  <2> USE <1>11 DEF Reply, TypeOK
  <2>1. \A b \in Calls \ {c} : Untouched(b)
    BY DEF Untouched
  <2>2. LoopState(c)'
    BY DEF LoopState, AllConsistent, Consistent
  <2>3. ClosedState(c)'
    BY DEF ClosedState, LoopState, AllConsistent, Consistent
  <2>4. ResultState(c)'
    <3>1. \A x \in buf[c] \cup results[c] : x[1] \in Dests
      OBVIOUS
    <3>2. ResultState(c)
      BY DEF AllConsistent, Consistent
    <3>3. \A x \in buf[c] \cup results[c] : g'[<<c, x[1]>>] \in Past
      BY <3>1, <3>2 DEF ResultState
    <3>4. \A b \in Dests : g'[<<c, b>>] \in Past => g[<<c, b>>] \in Past
      OBVIOUS
    <3> QED
      BY <3>2, <3>3, <3>4 DEF ResultState
  <2> QED
    BY <2>1, <2>2, <2>3, <2>4 DEF Consistent
<1>12. ASSUME NEW c \in Calls, NEW d \in Dests, Leave(c, d)
      PROVE  Consistent(c)' /\ \A b \in Calls \ {c} : Untouched(b)
  <2> USE <1>12 DEF Leave, TypeOK
  <2>1. \A b \in Calls \ {c} : Untouched(b)
    BY DEF Untouched
  <2>2. LoopState(c)'
    BY DEF LoopState, AllConsistent, Consistent
  <2>3. ClosedState(c)'
    BY DEF ClosedState, LoopState, AllConsistent, Consistent
  <2>4. ResultState(c)'
    <3>1. \A x \in buf[c] \cup results[c] : x[1] \in Dests
      OBVIOUS
    <3>2. ResultState(c)
      BY DEF AllConsistent, Consistent
    <3>3. \A x \in buf[c] \cup results[c] : g'[<<c, x[1]>>] \in Past
      BY <3>1, <3>2 DEF ResultState
    <3>4. \A b \in Dests : g'[<<c, b>>] \in Past => g[<<c, b>>] \in Past
      OBVIOUS
    <3> QED
      BY <3>2, <3>3, <3>4 DEF ResultState
  <2> QED
    BY <2>1, <2>2, <2>3, <2>4 DEF Consistent
<1>13. ASSUME NEW c \in Calls, NEW d \in Dests, Done(c, d)
      PROVE  Consistent(c)' /\ \A b \in Calls \ {c} : Untouched(b)
  <2> USE <1>13 DEF Done, TypeOK
  <2>1. \A b \in Calls \ {c} : Untouched(b)
    BY DEF Untouched
  <2>2. LoopState(c)'
    BY DEF LoopState, AllConsistent, Consistent
  <2>3. ClosedState(c)'
    BY DEF ClosedState, LoopState, AllConsistent, Consistent
  <2>4. ResultState(c)'
    <3>1. \A x \in buf[c] \cup results[c] : x[1] \in Dests
      OBVIOUS
    <3>2. ResultState(c)
      BY DEF AllConsistent, Consistent
    <3>3. \A x \in buf[c] \cup results[c] : g'[<<c, x[1]>>] \in Past
      BY <3>1, <3>2 DEF ResultState
    <3>4. \A b \in Dests : g'[<<c, b>>] \in Past => g[<<c, b>>] \in Past
      OBVIOUS
    <3> QED
      BY <3>2, <3>3, <3>4 DEF ResultState
  <2> QED
    BY <2>1, <2>2, <2>3, <2>4 DEF Consistent
<1>14. CASE UNCHANGED vars
  BY <1>1, <1>14 DEF vars, Untouched, AllConsistent
<1> QED
  BY <1>1, <1>2, <1>3, <1>4, <1>5, <1>6, <1>7, <1>8, <1>9, <1>10, <1>11, <1>12, <1>13, <1>14
     DEF Next, Caller, Goroutine, AllConsistent

\* The inductive invariant holds in every reachable state.
THEOREM Invariance == Spec => []IInv
<1>1. IInv /\ [Next]_vars => IInv'
  BY TypeStep, CountStep, ConsistentStep DEF IInv
<1> QED
  BY <1>1, InitIInv, PTL DEF Spec

-----------------------------------------------------------------------------
\* Every variable keeps its type; in particular the wait group and the load
\* counter never become negative.
THEOREM TypeCorrect == Spec => []TypeOK
BY Invariance, PTL DEF IInv

\* The load counter is exactly the number of forwards in flight.
THEOREM LoadCorrect == Spec => []LoadIsInFlight
BY Invariance, PTL DEF IInv

\* No goroutine can panic by sending on a closed result channel.
THEOREM SendSafe == Spec => []NeverSendOnClosed
<1>1. IInv => NeverSendOnClosed
  BY DEF IInv, AllConsistent, Consistent, ClosedState, NeverSendOnClosed
<1> QED
  BY <1>1, Invariance, PTL

\* When a call returns, all its goroutines have ended and the channel is
\* drained: nothing leaks.
THEOREM CleanReturn == Spec => []ReturnedClean
<1>1. ASSUME IInv PROVE ReturnedClean
  <2> SUFFICES ASSUME NEW c \in Calls, caller[c] = "returned"
               PROVE  buf[c] = {} /\ \A d \in targets[c] : g[<<c, d>>] = "done"
    BY DEF ReturnedClean
  <2>1. LoopState(c) /\ ClosedState(c) /\ TypeOK
    BY <1>1 DEF IInv, AllConsistent, Consistent
  <2>2. ASSUME NEW d \in targets[c] PROVE g[<<c, d>>] = "done"
    BY <2>1 DEF LoopState, ClosedState, TypeOK
  <2> QED
    BY <2>1, <2>2 DEF ClosedState
<1> QED
  BY <1>1, Invariance, PTL

\* In a call that is about to return every target is done.
LEMMA ReturnFindsAllDone ==
  ASSUME IInv, NEW c \in Calls, Return(c)
  PROVE  /\ targets[c] \subseteq Dests
         /\ \A d \in targets[c] : g[<<c, d>>] = "done"
         /\ caller[c] = "collect" /\ buf[c] = {} /\ ResultState(c)
<1>1. LoopState(c) /\ ClosedState(c) /\ ResultState(c) /\ TypeOK
  BY DEF IInv, AllConsistent, Consistent
<1>2. caller[c] = "collect" /\ closed[c] /\ buf[c] = {}
  BY DEF Return, Exhausted
<1> QED
  BY <1>1, <1>2 DEF LoopState, ClosedState, TypeOK

\* Only Return ends a call that has started goroutines.
LEMMA OnlyReturnEnds ==
  ASSUME TypeOK, [Next]_vars, NEW c \in Calls,
         caller[c] = "collect", caller'[c] = "returned"
  PROVE  Return(c)
<1> USE DEF TypeOK, call
<1>1. ASSUME NEW b \in Calls, NEW D \in SUBSET Dests, Call(b, D) PROVE FALSE
  BY <1>1 DEF Call
<1>2. ASSUME NEW b \in Calls, EndLoop(b) PROVE FALSE
  BY <1>2 DEF EndLoop
<1>3. ASSUME NEW b \in Calls, Return(b) PROVE b = c
  BY <1>3 DEF Return
<1>4. ASSUME NEW b \in Calls, Cancel(b) \/ CloseChan(b) \/ Collect(b) PROVE FALSE
  BY <1>4 DEF Cancel, CloseChan, Collect
<1>5. ASSUME NEW b \in Calls, NEW d \in Dests, Spawn(b, d) \/ Goroutine(b, d)
      PROVE  FALSE
  BY <1>5 DEF Spawn, Goroutine, Enter, Reply, SendResult, Leave, Done
<1>6. CASE UNCHANGED vars
  BY <1>6 DEF vars
<1> QED
  BY <1>1, <1>2, <1>3, <1>4, <1>5, <1>6 DEF Next, Caller

\* A call that is not cancelled returns one result for every destination.
THEOREM Complete == Spec => CompleteUnlessCancelled
<1>1. ASSUME IInv, [Next]_vars, NEW c \in Calls,
             caller[c] = "collect", caller'[c] = "returned", ~ctxDone[c]
      PROVE  Answered(c) = targets[c]
  <2>1. Return(c)
    BY <1>1, OnlyReturnEnds DEF IInv
  <2>2. /\ targets[c] \subseteq Dests
        /\ \A d \in targets[c] : g[<<c, d>>] = "done"
        /\ buf[c] = {} /\ ResultState(c)
    BY <1>1, <2>1, ReturnFindsAllDone
  <2>3. \A d \in targets[c] : \E x \in results[c] : x[1] = d
    BY <1>1, <2>2 DEF ResultState
  <2>4. ASSUME NEW x \in results[c] PROVE x[1] \in targets[c]
    <3>1. x[1] \in Dests /\ g[<<c, x[1]>>] # "none"
      BY <1>1, <2>2 DEF ResultState, IInv, TypeOK
    <3> QED
      BY <1>1, <3>1 DEF IInv, AllConsistent, Consistent, LoopState
  <2> QED
    BY <2>3, <2>4 DEF Answered
<1>2. IInv /\ [Next]_vars
        => [\A c \in Calls :
              caller[c] = "collect" /\ caller'[c] = "returned" /\ ~ctxDone[c]
                => Answered(c) = targets[c]]_vars
  BY <1>1
<1> QED
  BY <1>2, Invariance, PTL DEF Spec, CompleteUnlessCancelled

-----------------------------------------------------------------------------
(* Refinement of ForwardCall.                                              *)

\* A step that neither settles a destination nor moves a result out of
\* buf \cup results is invisible in the outcomes.
LEMMA OutcomeUnchanged ==
  ASSUME \A c \in Calls : buf'[c] \cup results'[c] = buf[c] \cup results[c],
         \A p \in Calls \X Dests : g'[p] \in Past <=> g[p] \in Past
  PROVE  absOutcome' = absOutcome
BY DEF absOutcome

\* The steps the abstract call does not see.
LEMMA InvisibleSteps ==
  ASSUME IInv, NEW c \in Calls, NEW d \in Dests,
         \/ Spawn(c, d) \/ EndLoop(c) \/ CloseChan(c) \/ Collect(c)
         \/ Enter(c, d) \/ (\E o \in Holding : Reply(c, d, o))
         \/ Leave(c, d) \/ Done(c, d)
  PROVE  absStatus' = absStatus /\ targets' = targets /\ ctxDone' = ctxDone
         /\ absOutcome' = absOutcome
<1> USE DEF call, channel
<1>1. TypeOK
  BY DEF IInv
<1>2. targets' = targets /\ ctxDone' = ctxDone
  BY DEF Spawn, EndLoop, CloseChan, Collect, Enter, Reply, Leave, Done
<1>3. \A b \in Calls : caller'[b] = caller[b]
                        \/ (caller[b] = "spawn" /\ caller'[b] = "collect")
  BY <1>1 DEF TypeOK, Spawn, EndLoop, CloseChan, Collect, Enter, Reply, Leave, Done
<1>4. absStatus' = absStatus
  BY <1>3 DEF absStatus
<1>5. \A b \in Calls : buf'[b] \cup results'[b] = buf[b] \cup results[b]
  <2>1. CASE Collect(c)
    BY <1>1, <2>1 DEF TypeOK, Collect
  <2>2. CASE ~Collect(c)
    BY <2>2 DEF Spawn, EndLoop, CloseChan, Enter, Reply, Leave, Done
  <2> QED
    BY <2>1, <2>2
<1>6. \A p \in Calls \X Dests : g'[p] \in Past <=> g[p] \in Past
  <2>1. CASE Spawn(c, d)
    <3>1. g[<<c, d>>] = "none"
      BY <2>1 DEF Spawn, IInv, AllConsistent, Consistent, LoopState, TypeOK
    <3> QED
      BY <1>1, <2>1, <3>1 DEF TypeOK, Spawn
  <2>2. CASE ~Spawn(c, d)
    BY <1>1, <2>2 DEF TypeOK, EndLoop, CloseChan, Collect, Enter, Reply, Leave, Done
  <2> QED
    BY <2>1, <2>2
<1> QED
  BY <1>2, <1>4, <1>5, <1>6, OutcomeUnchanged

\* sendResult settles its destination.
LEMMA SendSettles ==
  ASSUME IInv, NEW c \in Calls, NEW d \in Dests, SendResult(c, d)
  PROVE  \E o \in {"ok", "failed", "dropped"} : Abstract!Settle(c, d, o)
<1> USE DEF call, channel
<1> DEFINE x == <<d, g[<<c, d>>] = "ok">>
           o == IF buf'[c] = buf[c] THEN "dropped" ELSE g[<<c, d>>]
           kept(p) == buf[p[1]] \cup results[p[1]]
<1>1. TypeOK /\ LoopState(c) /\ ClosedState(c) /\ ResultState(c)
  BY DEF IInv, AllConsistent, Consistent
<1>2. /\ g[<<c, d>>] \in Holding /\ g' = [g EXCEPT ![<<c, d>>] = "sent"]
      /\ UNCHANGED <<caller, targets, ctxDone, results>>
  BY DEF SendResult
<1>3. <<d, TRUE>> \notin kept(<<c, d>>) /\ <<d, FALSE>> \notin kept(<<c, d>>)
  BY <1>1, <1>2 DEF ResultState
<1>4. \/ buf' = [buf EXCEPT ![c] = @ \cup {x}]
      \/ buf' = buf /\ ctxDone[c]
  BY DEF SendResult, MayDrop
<1>5. caller[c] \in {"spawn", "collect"} /\ d \in targets[c]
  BY <1>1, <1>2 DEF LoopState, ClosedState, TypeOK
<1>6. absOutcome[<<c, d>>] = "pending"
  BY <1>1, <1>2, <1>3 DEF absOutcome
<1>7. absOutcome' = [absOutcome EXCEPT ![<<c, d>>] = o]
  <2>1. ASSUME NEW p \in Calls \X Dests, p # <<c, d>>
        PROVE  absOutcome'[p] = absOutcome[p]
    <3>1. g'[p] = g[p]
      BY <1>1, <1>2, <2>1 DEF TypeOK
    <3>2. /\ <<p[2], TRUE>> \in kept(p)' <=> <<p[2], TRUE>> \in kept(p)
          /\ <<p[2], FALSE>> \in kept(p)' <=> <<p[2], FALSE>> \in kept(p)
      <4>1. CASE p[1] = c
        <5>1. p[2] # d
          BY <2>1, <4>1
        <5> QED
          BY <1>1, <1>2, <1>4, <4>1, <5>1 DEF TypeOK
      <4>2. CASE p[1] # c
        BY <1>1, <1>2, <1>4, <4>2 DEF TypeOK
      <4> QED
        BY <4>1, <4>2
    <3> QED
      BY <3>1, <3>2 DEF absOutcome
  <2>2. absOutcome'[<<c, d>>] = o
    <3>1. g'[<<c, d>>] = "sent" /\ results' = results
      BY <1>1, <1>2 DEF TypeOK
    <3>2. CASE buf' = buf
      BY <1>3, <3>1, <3>2 DEF absOutcome
    <3>3. CASE buf' = [buf EXCEPT ![c] = @ \cup {x}]
      <4>1. buf'[c] = buf[c] \cup {x} /\ x \notin buf[c]
        BY <1>1, <1>2, <1>3, <3>3 DEF TypeOK
      <4>2. CASE g[<<c, d>>] = "ok"
        BY <1>3, <3>1, <4>1, <4>2 DEF absOutcome
      <4>3. CASE g[<<c, d>>] = "failed"
        BY <1>3, <3>1, <4>1, <4>3 DEF absOutcome
      <4> QED
        BY <1>2, <4>2, <4>3
    <3> QED
      BY <1>4, <3>2, <3>3
  <2> QED
    BY <2>1, <2>2 DEF absOutcome
<1>8. absStatus' = absStatus /\ absStatus[c] = "active"
  BY <1>2, <1>5 DEF absStatus
<1>9. o \in {"ok", "failed", "dropped"} /\ (o = "dropped" => ctxDone[c])
  <2>1. CASE buf' = buf
    <3>1. x \in {<<d, TRUE>>, <<d, FALSE>>}
      OBVIOUS
    <3>2. x \notin buf[c]
      BY <1>3, <3>1
    <3> HIDE DEF x
    <3>3. buf # [buf EXCEPT ![c] = @ \cup {x}]
      BY <1>1, <3>2 DEF TypeOK
    <3> QED
      BY <1>4, <2>1, <3>3
  <2>2. CASE buf' # buf
    BY <1>1, <1>2, <1>3, <1>4, <2>2 DEF TypeOK
  <2> QED
    BY <2>1, <2>2
<1> HIDE DEF o
<1>10. Abstract!Settle(c, d, o)
  BY <1>2, <1>5, <1>6, <1>7, <1>8, <1>9 DEF Abstract!Settle
<1> QED
  BY <1>9, <1>10

\* The return of the call is the abstract return: nothing is pending.
LEMMA ReturnReturns ==
  ASSUME IInv, NEW c \in Calls, Return(c)
  PROVE  Abstract!Return(c)
<1> USE DEF call, channel
<1>1. /\ caller' = [caller EXCEPT ![c] = "returned"]
      /\ ctxDone' = [ctxDone EXCEPT ![c] = TRUE]
      /\ UNCHANGED <<targets, g, buf, results>>
  BY DEF Return
<1>2. /\ targets[c] \subseteq Dests /\ caller[c] = "collect"
      /\ \A d \in targets[c] : g[<<c, d>>] = "done"
  BY ReturnFindsAllDone
<1>3. \A d \in targets[c] : absOutcome[<<c, d>>] # "pending"
  BY <1>2 DEF absOutcome
<1>4. absOutcome' = absOutcome
  BY <1>1, OutcomeUnchanged
<1>5. absStatus[c] = "active" /\ absStatus' = [absStatus EXCEPT ![c] = "returned"]
  BY <1>1, <1>2 DEF absStatus, IInv, TypeOK
<1> QED
  BY <1>1, <1>3, <1>4, <1>5 DEF Abstract!Return

\* The goroutines, the channel, the wait group and the deferred calls
\* together implement the abstract forward call.
THEOREM Refinement == Spec => ImplementsForwardCall
<1> USE DEF call, channel
<1>1. Init => Abstract!Init
  BY DEF Init, Abstract!Init, absStatus, absOutcome
<1>2. ASSUME IInv, [Next]_vars PROVE [Abstract!Next]_(Abstract!vars)
  <2> USE <1>2
  <2>1. ASSUME NEW c \in Calls, NEW D \in SUBSET Dests, Call(c, D)
        PROVE  Abstract!Begin(c, D)
    <3>1. absOutcome' = absOutcome
      BY <2>1, OutcomeUnchanged DEF Call
    <3>2. absStatus[c] = "idle"
          /\ absStatus' = [absStatus EXCEPT ![c] = IF D = {} THEN "returned"
                                                    ELSE "active"]
      BY <2>1 DEF Call, absStatus, IInv, TypeOK
    <3> QED
      BY <2>1, <3>1, <3>2 DEF Call, Abstract!Begin
  <2>2. ASSUME NEW c \in Calls, Cancel(c) PROVE Abstract!Cancel(c)
    <3>1. absOutcome' = absOutcome /\ absStatus' = absStatus
      BY <2>2, OutcomeUnchanged DEF Cancel, absStatus
    <3> QED
      BY <2>2, <3>1 DEF Cancel, Abstract!Cancel
  <2>3. ASSUME NEW c \in Calls, NEW d \in Dests, SendResult(c, d)
        PROVE  \E o \in {"ok", "failed", "dropped"} : Abstract!Settle(c, d, o)
    BY <2>3, SendSettles
  <2>4. ASSUME NEW c \in Calls, Return(c) PROVE Abstract!Return(c)
    BY <2>4, ReturnReturns
  <2>5. ASSUME NEW c \in Calls, NEW d \in Dests,
               \/ Spawn(c, d) \/ Enter(c, d) \/ (\E o \in Holding : Reply(c, d, o))
               \/ Leave(c, d) \/ Done(c, d)
        PROVE  UNCHANGED Abstract!vars
    BY <2>5, InvisibleSteps DEF Abstract!vars
  <2>6. ASSUME NEW c \in Calls, EndLoop(c) \/ CloseChan(c) \/ Collect(c)
        PROVE  UNCHANGED Abstract!vars
    <3>1. CASE Dests # {}
      BY <2>6, <3>1, InvisibleSteps DEF Abstract!vars
    <3>2. CASE Dests = {}
      <4>1. \A p \in Calls \X Dests : FALSE
        BY <3>2
      <4>2. absOutcome' = absOutcome
        BY <4>1 DEF absOutcome
      <4>3. absStatus' = absStatus
        BY <2>6 DEF EndLoop, CloseChan, Collect, absStatus, IInv, TypeOK
      <4> QED
        BY <2>6, <4>2, <4>3 DEF EndLoop, CloseChan, Collect, Abstract!vars
    <3> QED
      BY <3>1, <3>2
  <2>7. CASE UNCHANGED vars
    <3>1. absOutcome' = absOutcome /\ absStatus' = absStatus
      BY <2>7 DEF vars, absOutcome, absStatus
    <3> QED
      BY <2>7, <3>1 DEF vars, Abstract!vars
  <2> QED
    BY <2>1, <2>2, <2>3, <2>4, <2>5, <2>6, <2>7
       DEF Next, Caller, Goroutine, Abstract!Next
<1> QED
  BY <1>1, <1>2, Invariance, PTL DEF Spec, ImplementsForwardCall, Abstract!Spec
=============================================================================
