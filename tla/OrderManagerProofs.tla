-------------------------- MODULE OrderManagerProofs --------------------------
(***************************************************************************)
(* Theorems about OrderManager, for any orders, volume and lifetime.       *)
(***************************************************************************)
EXTENDS OrderManager, TLAPS

\* A report tells of a fill that happened and of an end that came.
ReportTrue(o, r) ==
  /\ r.filled <= done[o]
  /\ r.code = "filled" => live[o] = "filled"
  /\ StateOf[r.code] = "Cancelled" => live[o] = "cancelled"

\* What is tracked, what is on the wire and what is on the stream, seen from the
\* exchange's state of the order.
OrderInv(o) ==
  /\ pc[o] = "new" \/ "place" \in wire[o] => live[o] = "none" /\ reports[o] = <<>>
  /\ "place" \in wire[o] => pc[o] # "new" /\ state[o] = "Pending" /\ filled[o] = 0
  /\ live[o] = "none" => done[o] = 0
  /\ live[o] = "open" => done[o] < Volume /\ Active(o)
  /\ live[o] = "filled" => done[o] = Volume
  /\ filled[o] <= done[o]
  /\ state[o] = "Filled" => live[o] = "filled"
  /\ state[o] = "Cancelled" => live[o] = "cancelled"
  /\ "placed" \in wire[o] => live[o] # "none"
  /\ "placed_full" \in wire[o] => live[o] = "filled"
  /\ "cancel_done" \in wire[o] => live[o] = "cancelled"
  /\ \A i \in 1..Len(reports[o]) : ReportTrue(o, reports[o][i])

IInv == TypeOK /\ \A o \in Orders : OrderInv(o)

USE VolumeAssumption, LifetimeAssumption

(***************************************************************************)
(* Codes and sequences                                                     *)
(***************************************************************************)

LEMMA CodeFacts ==
  /\ Codes = {"partial_fill", "filled", "part_cancelled", "cancelled"}
  /\ StateOf["partial_fill"] = "PartiallyFilled"
  /\ StateOf["filled"] = "Filled"
  /\ StateOf["part_cancelled"] = "Cancelled"
  /\ StateOf["cancelled"] = "Cancelled"
BY DEF Codes, StateOf

\* What the exchange reports is a report.
LEMMA ReportTypes ==
  ASSUME NEW v \in 0..Volume
  PROVE  FillReport(v) \in Report /\ CancelReport(v) \in Report
BY CodeFacts DEF FillReport, CancelReport, Report

\* The elements of a sequence after Tail and Append.
LEMMA TailElements ==
  ASSUME NEW S, NEW s \in Seq(S), s # <<>>
  PROVE  /\ Head(s) \in S /\ Head(s) = s[1] /\ 1 \in 1..Len(s)
         /\ Tail(s) \in Seq(S)
         /\ \A i \in 1..Len(Tail(s)) : i + 1 \in 1..Len(s) /\ Tail(s)[i] = s[i + 1]
OBVIOUS

LEMMA AppendElements ==
  ASSUME NEW S, NEW s \in Seq(S), NEW e \in S
  PROVE  /\ Append(s, e) \in Seq(S)
         /\ \A i \in 1..Len(Append(s, e)) :
              Append(s, e)[i] = e \/ (i \in 1..Len(s) /\ Append(s, e)[i] = s[i])
OBVIOUS

(***************************************************************************)
(* Types                                                                   *)
(***************************************************************************)

LEMMA InitIInv == Init => IInv
BY DEF Init, IInv, TypeOK, OrderInv, TrackedState, Messages

LEMMA WireTypes ==
  ASSUME TypeOK, NEW o \in Orders, NEW a, NEW b \in Messages,
         Receive(o, a) \/ Swap(o, a, b)
  PROVE  wire' \in [Orders -> SUBSET Messages]
<1>1. wire[o] \ {a} \in SUBSET Messages /\ (wire[o] \ {a}) \cup {b} \in SUBSET Messages
  BY DEF TypeOK
<1> QED
  BY <1>1 DEF TypeOK, Receive, Swap

LEMMA WriteTypes ==
  ASSUME TypeOK, NEW o \in Orders, NEW s \in TrackedState, NEW v \in 0..Volume,
         Write(o, s, v)
  PROVE  /\ state' \in [Orders -> TrackedState]
         /\ filled' \in [Orders -> 0..Volume]
         /\ quiet' \in [Orders -> 0..Lifetime]
BY DEF TypeOK, Write

LEMMA StepTypeOK == IInv /\ [Next]_vars => TypeOK'
<1> SUFFICES ASSUME IInv, [Next]_vars PROVE TypeOK'
  OBVIOUS
<1>0. TypeOK
  BY DEF IInv
<1> USE <1>0 DEF TypeOK, manager, exchange, TrackedState, ActiveState, OverState, Messages
<1>1. ASSUME NEW o \in Orders, Submit(o) PROVE TypeOK'
  BY <1>1 DEF Submit, Goto, Write
<1>2. ASSUME NEW o \in Orders, Placed(o) PROVE TypeOK'
  <2>1. /\ Receive(o, "placed") \/ Receive(o, "placed_full")
        /\ Write(o, "Submitted", filled[o]) \/ Write(o, "Filled", Volume)
    BY <1>2 DEF Placed
  <2>2. /\ state' \in [Orders -> TrackedState]
        /\ filled' \in [Orders -> 0..Volume]
        /\ quiet' \in [Orders -> 0..Lifetime]
    BY <2>1, WriteTypes
  <2>3. wire' \in [Orders -> SUBSET Messages]
    BY <2>1, WireTypes
  <2> QED
    BY <1>2, <2>2, <2>3 DEF Placed, Goto
<1>3. ASSUME NEW o \in Orders, PlaceFails(o) PROVE TypeOK'
  <2>1. wire' \in [Orders -> SUBSET Messages]
    BY <1>3, WireTypes DEF PlaceFails
  <2> QED
    BY <1>3, <2>1 DEF PlaceFails, Goto
<1>4. ASSUME NEW o \in Orders, HandleOrderUpdate(o) PROVE TypeOK'
  <2>1. /\ Head(reports[o]) \in Report /\ Tail(reports[o]) \in Seq(Report)
    BY <1>4, TailElements DEF HandleOrderUpdate
  <2>2. StateOf[Head(reports[o]).code] \in TrackedState
        /\ Head(reports[o]).filled \in 0..Volume
    BY <2>1, CodeFacts DEF Report
  <2>3. PICK s \in TrackedState, v \in 0..Volume :
          UNCHANGED <<state, filled, quiet>> \/ Write(o, s, v)
    BY <1>4, <2>2 DEF HandleOrderUpdate
  <2>4. /\ state' \in [Orders -> TrackedState]
        /\ filled' \in [Orders -> 0..Volume]
        /\ quiet' \in [Orders -> 0..Lifetime]
    BY <2>3, WriteTypes
  <2> QED
    BY <1>4, <2>1, <2>4 DEF HandleOrderUpdate
<1>5. ASSUME NEW o \in Orders, CancelOrder(o) PROVE TypeOK'
  BY <1>5 DEF CancelOrder, Goto
<1>6. ASSUME NEW o \in Orders, CancelAnswered(o) PROVE TypeOK'
  <2>1. \/ UNCHANGED <<state, filled, quiet>>
        \/ Write(o, "Cancelled", filled[o])
    BY <1>6 DEF CancelAnswered, MarkCancelled
  <2>2. /\ state' \in [Orders -> TrackedState]
        /\ filled' \in [Orders -> 0..Volume]
        /\ quiet' \in [Orders -> 0..Lifetime]
    BY <2>1, WriteTypes
  <2>3. wire' \in [Orders -> SUBSET Messages]
    BY <1>6, WireTypes DEF CancelAnswered
  <2> QED
    BY <1>6, <2>2, <2>3 DEF CancelAnswered, Goto
<1>7. CASE CleanupOldOrders
  BY <1>7 DEF CleanupOldOrders, Kept
<1>8. CASE Tick
  BY <1>8 DEF Tick, Older
<1>9. ASSUME NEW o \in Orders, ExecutePlace(o) PROVE TypeOK'
  <2>1. PICK v \in 0..Volume :
          /\ Swap(o, "place", IF v = Volume THEN "placed_full" ELSE "placed")
          /\ done' = [done EXCEPT ![o] = v]
          /\ live' = [live EXCEPT ![o] = IF v = Volume THEN "filled" ELSE "open"]
          /\ reports' = [reports EXCEPT ![o] = [i \in 1..v |-> FillReport(i)]]
    BY <1>9 DEF ExecutePlace
  <2>2. [i \in 1..v |-> FillReport(i)] \in Seq(Report)
    BY ReportTypes
  <2> QED
    BY <1>9, <2>1, <2>2 DEF ExecutePlace, Swap
<1>10. ASSUME NEW o \in Orders, RefusePlace(o) PROVE TypeOK'
  BY <1>10 DEF RefusePlace, Swap
<1>11. ASSUME NEW o \in Orders, Fill(o) PROVE TypeOK'
  <2>1. done[o] + 1 \in 0..Volume
    BY <1>11 DEF Fill, IInv, OrderInv
  <2>2. Append(reports[o], FillReport(done[o] + 1)) \in Seq(Report)
    BY <2>1, ReportTypes, AppendElements
  <2> QED
    BY <1>11, <2>1, <2>2 DEF Fill
<1>12. ASSUME NEW o \in Orders, ExecuteCancel(o) PROVE TypeOK'
  <2>1. Append(reports[o], CancelReport(done[o])) \in Seq(Report)
    BY ReportTypes, AppendElements
  <2>2. wire' \in [Orders -> SUBSET Messages]
    BY <1>12, WireTypes DEF ExecuteCancel
  <2>3. /\ reports' \in [Orders -> Seq(Report)]
        /\ live' \in [Orders -> {"none", "open", "filled", "cancelled"}]
    <3>1. CASE live[o] = "open"
      <4>1. /\ live' = [live EXCEPT ![o] = "cancelled"]
            /\ reports' = [reports EXCEPT ![o] = Append(@, CancelReport(done[o]))]
        BY <1>12, <3>1 DEF ExecuteCancel
      <4> QED
        BY <2>1, <4>1
    <3>2. CASE live[o] # "open"
      BY <1>12, <3>2 DEF ExecuteCancel
    <3> QED
      BY <3>1, <3>2
  <2>4. UNCHANGED <<manager, pc, done, missed>>
    BY <1>12 DEF ExecuteCancel
  <2> QED
    BY <2>2, <2>3, <2>4
<1>13. ASSUME NEW o \in Orders, LoseReports(o) PROVE TypeOK'
  BY <1>13 DEF LoseReports
<1>14. CASE UNCHANGED vars
  BY <1>14 DEF vars
<1> QED
  BY <1>1, <1>2, <1>3, <1>4, <1>5, <1>6, <1>7, <1>8, <1>9, <1>10, <1>11, <1>12,
     <1>13, <1>14 DEF Next, ManagerStep, ExchangeStep

(***************************************************************************)
(* The invariant                                                           *)
(***************************************************************************)

\* Nothing OrderInv speaks of has changed for order p.
Same(p) ==
  /\ state'[p] = state[p] /\ filled'[p] = filled[p] /\ pc'[p] = pc[p]
  /\ wire'[p] = wire[p] /\ reports'[p] = reports[p]
  /\ live'[p] = live[p] /\ done'[p] = done[p]

LEMMA SameOrder ==
  ASSUME NEW p \in Orders, OrderInv(p), Same(p)
  PROVE  OrderInv(p)'
BY DEF Same, OrderInv, ReportTrue, Active

\* A step of one order leaves the others alone.
LEMMA OtherOrders ==
  ASSUME TypeOK, NEW o \in Orders, NEW p \in Orders, p # o,
         ManagerStep(o) \/ ExchangeStep(o)
  PROVE  Same(p)
<1> USE DEF TypeOK, manager, exchange, Same
<1>1. CASE ManagerStep(o)
  BY <1>1 DEF ManagerStep, Submit, Placed, PlaceFails, HandleOrderUpdate, CancelOrder,
              CancelAnswered, MarkCancelled, Goto, Write, Receive
<1>2. CASE ExchangeStep(o)
  BY <1>2 DEF ExchangeStep, ExecutePlace, RefusePlace, Fill, ExecuteCancel, LoseReports, Swap
<1> QED
  BY <1>1, <1>2

\* The order a step is about, action by action.
LEMMA ManagerOrder ==
  ASSUME TypeOK, NEW o \in Orders, OrderInv(o), ManagerStep(o)
  PROVE  OrderInv(o)'
<1> USE DEF TypeOK, manager, exchange, OrderInv, ReportTrue, Active, ActiveState
<1>1. CASE Submit(o)
  BY <1>1 DEF Submit, Goto, Write
<1>2. CASE Placed(o)
  BY <1>2 DEF Placed, Goto, Write, Receive
<1>3. CASE PlaceFails(o)
  BY <1>3 DEF PlaceFails, Goto, Receive
<1>4. CASE HandleOrderUpdate(o)
  <2>1. /\ reports[o] \in Seq(Report)
        /\ reports[o] # <<>>
        /\ reports'[o] = Tail(reports[o])
        /\ UNCHANGED <<pc, wire, live, done>>
    BY <1>4 DEF HandleOrderUpdate
  <2>2. ReportTrue(o, Head(reports[o])) /\ Head(reports[o]) \in Report
    BY <2>1, TailElements
  <2>3. \A i \in 1..Len(reports'[o]) : ReportTrue(o, reports'[o][i])
    BY <2>1, TailElements
  <2>4. \/ state'[o] = state[o] /\ filled'[o] = filled[o]
        \/ /\ state'[o] = StateOf[Head(reports[o]).code]
           /\ filled'[o] = Head(reports[o]).filled
    BY <1>4 DEF HandleOrderUpdate, Write
  <2> QED
    BY <2>1, <2>2, <2>3, <2>4, CodeFacts DEF Report
<1>5. CASE CancelOrder(o)
  BY <1>5 DEF CancelOrder, Goto
<1>6. CASE CancelAnswered(o)
  BY <1>6 DEF CancelAnswered, Goto, Receive, MarkCancelled, Write
<1> QED
  BY <1>1, <1>2, <1>3, <1>4, <1>5, <1>6 DEF ManagerStep

LEMMA ReportFields ==
  ASSUME TypeOK, NEW o \in Orders
  PROVE  /\ reports[o] \in Seq(Report)
         /\ \A i \in 1..Len(reports[o]) :
              reports[o][i].filled \in 0..Volume /\ reports[o][i].code \in Codes
<1>1. reports[o] \in Seq(Report)
  BY DEF TypeOK
<1>2. \A i \in 1..Len(reports[o]) : reports[o][i] \in Report
  BY <1>1
<1> QED
  BY <1>1, <1>2 DEF Report

LEMMA ExchangeOrder ==
  ASSUME TypeOK, NEW o \in Orders, OrderInv(o), ExchangeStep(o)
  PROVE  OrderInv(o)'
<1> USE DEF TypeOK, manager, exchange, OrderInv, ReportTrue, Active, ActiveState
<1>1. CASE ExecutePlace(o)
  <2>1. PICK v \in 0..Volume :
          /\ Swap(o, "place", IF v = Volume THEN "placed_full" ELSE "placed")
          /\ done'[o] = v
          /\ live'[o] = IF v = Volume THEN "filled" ELSE "open"
          /\ reports'[o] = [i \in 1..v |-> FillReport(i)]
    BY <1>1 DEF ExecutePlace
  <2>2. \A i \in 1..v : (ReportTrue(o, FillReport(i)))'
    BY <2>1, CodeFacts DEF FillReport
  <2>3. \A i \in 1..Len(reports'[o]) : ReportTrue(o, reports[o][i])'
    BY <2>1, <2>2
  <2>4. /\ UNCHANGED <<state, filled, pc>>
        /\ "place" \in wire[o] /\ "place" \notin wire'[o]
        /\ "placed" \in wire'[o] => "placed" \in wire[o] \/ v # Volume
        /\ "placed_full" \in wire'[o] => "placed_full" \in wire[o] \/ v = Volume
        /\ "cancel_done" \in wire'[o] => "cancel_done" \in wire[o]
    BY <1>1, <2>1 DEF ExecutePlace, Swap
  <2>5. live[o] = "none" /\ pc[o] # "new" /\ state[o] = "Pending" /\ filled[o] = 0
    BY <2>4
  <2>6. /\ "placed" \notin wire[o] /\ "placed_full" \notin wire[o]
        /\ "cancel_done" \notin wire[o]
    BY <2>5
  <2> QED
    BY <2>1, <2>3, <2>4, <2>5, <2>6
<1>2. CASE RefusePlace(o)
  BY <1>2 DEF RefusePlace, Swap
<1>3. CASE Fill(o)
  <2>1. /\ live[o] = "open" /\ done'[o] = done[o] + 1
        /\ live'[o] = IF done[o] + 1 = Volume THEN "filled" ELSE "open"
        /\ reports'[o] = Append(reports[o], FillReport(done[o] + 1))
        /\ done[o] + 1 \in 0..Volume
        /\ UNCHANGED <<state, filled, pc, wire>>
    BY <1>3 DEF Fill
  <2>2. \A i \in 1..Len(reports'[o]) : ReportTrue(o, reports[o][i])'
    <3> DEFINE r == FillReport(done[o] + 1)
    <3>1. r \in Report /\ r.filled <= done'[o] /\ StateOf[r.code] # "Cancelled"
          /\ (r.code = "filled" => live'[o] = "filled")
      BY <2>1, CodeFacts, ReportTypes DEF FillReport
    <3>2. \A i \in 1..Len(reports[o]) :
            /\ reports[o][i].filled <= done'[o]
            /\ reports[o][i].code # "filled"
            /\ StateOf[reports[o][i].code] # "Cancelled"
      BY <2>1, ReportFields
    <3>3. \A i \in 1..Len(reports'[o]) :
            reports'[o][i] = r \/ (i \in 1..Len(reports[o]) /\ reports'[o][i] = reports[o][i])
      BY <2>1, <3>1, AppendElements
    <3> HIDE DEF r, TypeOK, OrderInv
    <3> QED
      BY <3>1, <3>2, <3>3
  <2> QED
    BY <2>1, <2>2
<1>4. CASE ExecuteCancel(o)
  <2>1. CASE live[o] = "open"
    <3>1. /\ live'[o] = "cancelled"
          /\ reports'[o] = Append(reports[o], CancelReport(done[o]))
          /\ Swap(o, "cancel", "cancel_done")
          /\ UNCHANGED <<state, filled, pc, done>>
      BY <1>4, <2>1 DEF ExecuteCancel
    <3>2. \A i \in 1..Len(reports'[o]) : ReportTrue(o, reports[o][i])'
      <4> DEFINE r == CancelReport(done[o])
      <4>1. r \in Report /\ r.filled = done[o] /\ r.code # "filled"
        BY CodeFacts, ReportTypes DEF CancelReport
      <4>2. \A i \in 1..Len(reports[o]) :
              reports[o][i].filled <= done[o] /\ reports[o][i].code # "filled"
        BY <2>1
      <4>3. \A i \in 1..Len(reports'[o]) :
              reports'[o][i] = r \/ (i \in 1..Len(reports[o]) /\ reports'[o][i] = reports[o][i])
        BY <3>1, <4>1, AppendElements
      <4>4. done[o] <= done[o]
        OBVIOUS
      <4> HIDE DEF r
      <4> QED
        BY <3>1, <4>1, <4>2, <4>3, <4>4
    <3>3. /\ "place" \in wire'[o] <=> "place" \in wire[o]
          /\ "placed" \in wire'[o] <=> "placed" \in wire[o]
          /\ "placed_full" \in wire'[o] <=> "placed_full" \in wire[o]
      BY <3>1 DEF Swap
    <3> QED
      BY <2>1, <3>1, <3>2, <3>3
  <2>2. CASE live[o] # "open"
    BY <1>4, <2>2 DEF ExecuteCancel, Swap
  <2> QED
    BY <2>1, <2>2
<1>5. CASE LoseReports(o)
  BY <1>5 DEF LoseReports
<1> QED
  BY <1>1, <1>2, <1>3, <1>4, <1>5 DEF ExchangeStep

LEMMA StepIInv == IInv /\ [Next]_vars => IInv'
<1> SUFFICES ASSUME IInv, [Next]_vars, NEW p \in Orders PROVE OrderInv(p)'
  BY StepTypeOK DEF IInv
<1>0. TypeOK /\ OrderInv(p)
  BY DEF IInv
<1>1. ASSUME NEW o \in Orders, ManagerStep(o) \/ ExchangeStep(o) PROVE OrderInv(p)'
  <2>1. CASE p = o
    BY <1>0, <1>1, <2>1, ManagerOrder, ExchangeOrder
  <2>2. CASE p # o
    BY <1>0, <1>1, <2>2, OtherOrders, SameOrder
  <2> QED
    BY <2>1, <2>2
<1>2. CASE CleanupOldOrders
  <2>1. /\ state'[p] = IF Kept(p) THEN state[p] ELSE "Untracked"
        /\ filled'[p] = IF Kept(p) THEN filled[p] ELSE 0
        /\ UNCHANGED <<pc, wire, reports, live, done>>
    BY <1>2 DEF CleanupOldOrders, exchange
  <2>2. Active(p) => Kept(p)
    BY DEF Kept
  <2> QED
    BY <1>0, <2>1, <2>2 DEF TypeOK, OrderInv, ReportTrue, Active, ActiveState
<1>3. CASE Tick
  <2>1. Same(p)
    BY <1>3 DEF Tick, Same, exchange
  <2> QED
    BY <1>0, <2>1, SameOrder
<1>4. CASE UNCHANGED vars
  <2>1. Same(p)
    BY <1>4 DEF vars, Same, manager, exchange
  <2> QED
    BY <1>0, <2>1, SameOrder
<1> QED
  BY <1>1, <1>2, <1>3, <1>4 DEF Next

LEMMA Invariance == Spec => []IInv
  BY InitIInv, StepIInv, PTL DEF Spec

(***************************************************************************)
(* Catching up                                                             *)
(***************************************************************************)

\* The newest report tells what the exchange holds.
Newest(o, r) ==
  /\ r.filled = done[o]
  /\ r.code = "filled" <=> live[o] = "filled"
  /\ StateOf[r.code] = "Cancelled" <=> live[o] = "cancelled"

Settled(o) ==
  /\ filled[o] = done[o]
  /\ state[o] = "Filled" <=> live[o] = "filled"
  /\ state[o] = "Cancelled" <=> live[o] = "cancelled"

\* Until its answer is read an order is as it was submitted and no cancel is sent;
\* then the reports still to come lead to what the exchange holds, whatever answers
\* are written in between.
CatchInv(o) ==
  /\ pc[o] \in {"new", "placing", "failed"} => ~known[o] /\ "cancel" \notin wire[o]
  /\ pc[o] = "placing" =>
       /\ state[o] = "Pending" /\ filled[o] = 0
       /\ reports[o] = <<>> /\ ~missed[o] => done[o] = 0 /\ live[o] \notin {"filled", "cancelled"}
  /\ known[o] => state[o] # "Untracked"
  /\ reports[o] # <<>> => Newest(o, reports[o][Len(reports[o])])
  /\ known[o] /\ ~missed[o] /\ reports[o] = <<>> => Settled(o)

LEMMA LastOfAppend ==
  ASSUME NEW S, NEW q \in Seq(S), NEW e \in S
  PROVE  Append(q, e) # <<>> /\ Append(q, e)[Len(Append(q, e))] = e
<1>1. Len(q) \in Nat /\ Len(Append(q, e)) = Len(q) + 1 /\ Append(q, e)[Len(q) + 1] = e
  OBVIOUS
<1> QED
  BY <1>1

\* Either the report that is handled is the newest, or that is still to come.
LEMMA LastOfTail ==
  ASSUME NEW S, NEW q \in Seq(S), q # <<>>
  PROVE  /\ Tail(q) = <<>> => Head(q) = q[Len(q)]
         /\ Tail(q) # <<>> => Tail(q)[Len(Tail(q))] = q[Len(q)]
<1>1. /\ Len(q) \in Nat /\ Len(q) >= 1 /\ Head(q) = q[1]
      /\ Tail(q) \in Seq(S) /\ Len(Tail(q)) = Len(q) - 1
      /\ \A i \in 1..Len(Tail(q)) : Tail(q)[i] = q[i + 1]
  OBVIOUS
<1>2. ASSUME Tail(q) = <<>> PROVE Head(q) = q[Len(q)]
  <2>1. Len(q) = 1
    BY <1>1, <1>2
  <2> QED
    BY <1>1, <2>1
<1>3. ASSUME Tail(q) # <<>> PROVE Tail(q)[Len(Tail(q))] = q[Len(q)]
  <2>1. Len(Tail(q)) \in 1..Len(Tail(q)) /\ Len(Tail(q)) + 1 = Len(q)
    BY <1>1, <1>3
  <2> QED
    BY <1>1, <2>1
<1> QED
  BY <1>2, <1>3

LEMMA SameCatch ==
  ASSUME NEW p \in Orders, CatchInv(p), Same(p), known'[p] = known[p], missed'[p] = missed[p]
  PROVE  CatchInv(p)'
BY DEF Same, CatchInv, Newest, Settled

LEMMA OtherOrdersKnown ==
  ASSUME TypeOK, NEW o \in Orders, NEW p \in Orders, p # o,
         ManagerStep(o) \/ ExchangeStep(o)
  PROVE  known'[p] = known[p] /\ missed'[p] = missed[p]
<1> USE DEF TypeOK, manager
<1>1. CASE ManagerStep(o)
  BY <1>1 DEF ManagerStep, Submit, Placed, PlaceFails, HandleOrderUpdate, CancelOrder, CancelAnswered
<1>2. CASE ExchangeStep(o)
  BY <1>2 DEF ExchangeStep, ExecutePlace, RefusePlace, Fill, ExecuteCancel, LoseReports
<1> QED
  BY <1>1, <1>2

LEMMA ManagerCatch ==
  ASSUME TypeOK, NEW o \in Orders, OrderInv(o), CatchInv(o), ManagerStep(o)
  PROVE  CatchInv(o)'
<1> USE DEF TypeOK, manager, exchange, OrderInv, CatchInv
<1>1. CASE Submit(o)
  BY <1>1 DEF Submit, Goto, Write
<1>2. CASE Placed(o)
  <2>1. /\ pc[o] = "placing" /\ pc'[o] = "placed" /\ known'[o] = TRUE
        /\ UNCHANGED <<reports, live, done, missed>>
    BY <1>2 DEF Placed, Goto
  <2>2. CASE Receive(o, "placed") /\ Write(o, "Submitted", filled[o])
    <3>1. state'[o] = "Submitted" /\ filled'[o] = 0
      BY <2>1, <2>2 DEF Write
    <3> QED
      BY <2>1, <3>1 DEF Newest, Settled
  <2>3. CASE Receive(o, "placed_full") /\ Write(o, "Filled", Volume)
    <3>1. live[o] = "filled" /\ state'[o] = "Filled"
      BY <2>3 DEF Receive, Write
    <3> QED
      BY <2>1, <3>1 DEF Newest
  <2> QED
    BY <1>2, <2>2, <2>3 DEF Placed
<1>3. CASE PlaceFails(o)
  BY <1>3 DEF PlaceFails, Goto, Receive, Newest, Settled
<1>4. CASE HandleOrderUpdate(o)
  <2> DEFINE r == Head(reports[o])
             last == reports[o][Len(reports[o])]
  <2>1. /\ reports[o] \in Seq(Report) /\ reports[o] # <<>>
        /\ reports'[o] = Tail(reports[o])
        /\ UNCHANGED <<known, pc, wire, live, done>>
    BY <1>4 DEF HandleOrderUpdate
  <2>2. Newest(o, last)
    BY <2>1
  <2>3. /\ Tail(reports[o]) = <<>> => r = last
        /\ Tail(reports[o]) # <<>> => Tail(reports[o])[Len(Tail(reports[o]))] = last
    BY <2>1, LastOfTail
  <2>4. r \in Report
    BY <2>1, TailElements
  <2> HIDE DEF r, last
  <2>5. reports'[o] # <<>> => Newest(o, reports[o][Len(reports[o])])'
    BY <2>1, <2>2, <2>3 DEF Newest
  <2>6. CASE known[o]
    <3>1. state'[o] = StateOf[r.code] /\ filled'[o] = r.filled /\ missed' = missed
      BY <1>4, <2>6 DEF HandleOrderUpdate, Write, r
    <3>2. /\ StateOf[r.code] # "Untracked"
          /\ StateOf[r.code] = "Filled" <=> r.code = "filled"
      BY <2>4, CodeFacts DEF Report
    <3>3. reports'[o] = <<>> => Newest(o, r)
      BY <2>1, <2>2, <2>3
    <3>4. reports'[o] = <<>> => Settled(o)'
      BY <2>1, <3>1, <3>2, <3>3 DEF Newest, Settled
    <3> QED
      BY <2>1, <2>5, <2>6, <3>1, <3>2, <3>4
  <2>7. CASE ~known[o]
    <3>1. /\ UNCHANGED <<state, filled>> /\ missed'[o] = TRUE
      BY <1>4, <2>7 DEF HandleOrderUpdate
    <3> QED
      BY <2>1, <2>5, <2>7, <3>1
  <2> QED
    BY <2>6, <2>7
<1>5. CASE CancelOrder(o)
  BY <1>5 DEF CancelOrder, Goto, Newest, Settled
<1>6. CASE CancelAnswered(o)
  <2>1. /\ pc'[o] = "returned" /\ UNCHANGED <<known, reports, live, done, missed>>
    BY <1>6 DEF CancelAnswered, Goto
  <2>2. \/ state'[o] = state[o] /\ filled'[o] = filled[o]
        \/ live[o] = "cancelled" /\ state'[o] = "Cancelled" /\ filled'[o] = filled[o]
    BY <1>6 DEF CancelAnswered, Receive, MarkCancelled, Write
  <2> QED
    BY <2>1, <2>2 DEF Newest, Settled
<1> QED
  BY <1>1, <1>2, <1>3, <1>4, <1>5, <1>6 DEF ManagerStep

LEMMA ExchangeCatch ==
  ASSUME TypeOK, NEW o \in Orders, OrderInv(o), CatchInv(o), ExchangeStep(o)
  PROVE  CatchInv(o)'
<1> USE DEF TypeOK, manager, exchange, OrderInv, CatchInv
<1>1. CASE ExecutePlace(o)
  <2>1. PICK v \in 0..Volume :
          /\ Swap(o, "place", IF v = Volume THEN "placed_full" ELSE "placed")
          /\ done'[o] = v
          /\ live'[o] = IF v = Volume THEN "filled" ELSE "open"
          /\ reports'[o] = [i \in 1..v |-> FillReport(i)]
    BY <1>1 DEF ExecutePlace
  <2>2. /\ UNCHANGED <<state, known, filled, pc, missed>> /\ "place" \in wire[o]
        /\ "cancel" \in wire'[o] => "cancel" \in wire[o]
    BY <1>1, <2>1 DEF ExecutePlace, Swap
  <2>3. reports'[o] \in Seq(Report) /\ Len(reports'[o]) = v
    BY <2>1, ReportTypes
  <2>4. CASE v = 0
    <3>1. reports'[o] = <<>> /\ live'[o] = "open"
      BY <2>1, <2>3, <2>4
    <3>2. state[o] = "Pending" /\ filled[o] = 0
      BY <2>2
    <3> QED
      BY <2>1, <2>2, <2>4, <3>1, <3>2 DEF Settled
  <2>5. CASE v # 0
    <3>1. v \in 1..v /\ reports'[o] # <<>>
      BY <2>3, <2>5
    <3>2. reports'[o][Len(reports'[o])] = FillReport(v)
      BY <2>1, <2>3, <3>1
    <3>3. Newest(o, FillReport(v))'
      BY <2>1, CodeFacts DEF Newest, FillReport
    <3>4. Newest(o, reports[o][Len(reports[o])])'
      BY <3>2, <3>3 DEF Newest
    <3> QED
      BY <2>2, <3>1, <3>4
  <2> QED
    BY <2>4, <2>5
<1>2. CASE RefusePlace(o)
  BY <1>2 DEF RefusePlace, Swap, Newest, Settled
<1>3. CASE Fill(o)
  <2> DEFINE r == FillReport(done[o] + 1)
  <2>1. /\ live[o] = "open" /\ done'[o] = done[o] + 1 /\ done[o] + 1 \in 0..Volume
        /\ live'[o] = IF done[o] + 1 = Volume THEN "filled" ELSE "open"
        /\ reports'[o] = Append(reports[o], r)
        /\ UNCHANGED <<state, known, filled, pc, wire, missed>>
    BY <1>3 DEF Fill
  <2>2. r \in Report /\ r.filled = done'[o]
        /\ (r.code = "filled" <=> live'[o] = "filled")
        /\ StateOf[r.code] # "Cancelled" /\ live'[o] # "cancelled"
    BY <2>1, CodeFacts, ReportTypes DEF FillReport
  <2> HIDE DEF r
  <2>3. reports'[o] # <<>> /\ reports'[o][Len(reports'[o])] = r
    BY <2>1, <2>2, LastOfAppend
  <2>4. Newest(o, reports[o][Len(reports[o])])'
    BY <2>2, <2>3 DEF Newest
  <2> QED
    BY <2>1, <2>3, <2>4
<1>4. CASE ExecuteCancel(o)
  <2>1. CASE live[o] = "open"
    <3> DEFINE r == CancelReport(done[o])
    <3>1. /\ live'[o] = "cancelled"
          /\ reports'[o] = Append(reports[o], r)
          /\ Swap(o, "cancel", "cancel_done")
          /\ UNCHANGED <<state, known, filled, pc, done, missed>>
      BY <1>4, <2>1 DEF ExecuteCancel
    <3>2. r \in Report /\ r.filled = done[o] /\ r.code # "filled" /\ StateOf[r.code] = "Cancelled"
      BY CodeFacts, ReportTypes DEF CancelReport
    <3> HIDE DEF r
    <3>3. reports'[o] # <<>> /\ reports'[o][Len(reports'[o])] = r
      BY <3>1, <3>2, LastOfAppend
    <3>4. Newest(o, reports[o][Len(reports[o])])'
      BY <3>1, <3>2, <3>3 DEF Newest
    <3>5. "cancel" \in wire[o]
      BY <3>1 DEF Swap
    <3> QED
      BY <3>1, <3>3, <3>4, <3>5
  <2>2. CASE live[o] # "open"
    BY <1>4, <2>2 DEF ExecuteCancel, Swap, Newest, Settled
  <2> QED
    BY <2>1, <2>2
<1>5. CASE LoseReports(o)
  BY <1>5 DEF LoseReports
<1> QED
  BY <1>1, <1>2, <1>3, <1>4, <1>5 DEF ExchangeStep

LEMMA StepCatch ==
  ASSUME IInv, NEW p \in Orders, CatchInv(p), [Next]_vars
  PROVE  CatchInv(p)'
<1>0. TypeOK /\ OrderInv(p)
  BY DEF IInv
<1>1. ASSUME NEW o \in Orders, ManagerStep(o) \/ ExchangeStep(o) PROVE CatchInv(p)'
  <2>1. CASE p = o
    BY <1>0, <1>1, <2>1, ManagerCatch, ExchangeCatch
  <2>2. CASE p # o
    BY <1>0, <1>1, <2>2, OtherOrders, OtherOrdersKnown, SameCatch
  <2> QED
    BY <2>1, <2>2
<1>2. CASE CleanupOldOrders
  <2>1. /\ state'[p] = IF Kept(p) THEN state[p] ELSE "Untracked"
        /\ filled'[p] = IF Kept(p) THEN filled[p] ELSE 0
        /\ known'[p] = (Kept(p) /\ known[p])
        /\ UNCHANGED <<pc, wire, reports, live, done, missed>>
    BY <1>2 DEF CleanupOldOrders, exchange
  <2>2. Active(p) => Kept(p)
    BY DEF Kept
  <2>3. CASE Kept(p)
    <3>1. Same(p) /\ known'[p] = known[p] /\ missed'[p] = missed[p]
      BY <1>0, <2>1, <2>3 DEF Same, TypeOK
    <3> QED
      BY <3>1, SameCatch
  <2>4. CASE ~Kept(p)
    <3>1. ~known'[p] /\ pc[p] # "placing"
      BY <2>1, <2>2, <2>4 DEF CatchInv, Active, ActiveState
    <3> QED
      BY <2>1, <3>1 DEF CatchInv, Newest
  <2> QED
    BY <2>3, <2>4
<1>3. CASE Tick \/ UNCHANGED vars
  <2>1. Same(p) /\ known'[p] = known[p] /\ missed'[p] = missed[p]
    BY <1>3 DEF Tick, vars, Same, manager, exchange
  <2> QED
    BY <2>1, SameCatch
<1> QED
  BY <1>1, <1>2, <1>3 DEF Next

LEMMA CatchInvariance == Spec => [](\A o \in Orders : CatchInv(o))
<1> DEFINE CInv == \A o \in Orders : CatchInv(o)
<1>1. Init => CInv
  BY DEF Init, CatchInv
<1>2. IInv /\ CInv /\ [Next]_vars => CInv'
  BY StepCatch
<1> HIDE DEF CInv
<1>3. Spec => []CInv
  BY <1>1, <1>2, Invariance, PTL DEF Spec
<1> QED
  BY <1>3 DEF CInv

(***************************************************************************)
(* Theorems                                                                *)
(***************************************************************************)

\* orders.rs: the manager's entries, the messages and the exchange's state of
\* every order keep their types.
THEOREM TypeCorrect == Spec => []TypeOK
<1>1. IInv => TypeOK
  BY DEF IInv
<1> QED
  BY <1>1, Invariance, PTL

\* orders.rs:300-304: an order that is open at the exchange is listed as active
\* and survives every clean-up, whatever was lost or came late.
THEOREM NoOpenOrderForgottenCorrect == Spec => []NoOpenOrderForgotten
<1>1. IInv => NoOpenOrderForgotten
  BY DEF IInv, OrderInv, NoOpenOrderForgotten
<1> QED
  BY <1>1, Invariance, PTL

\* orders.rs:181-243: no write of an answer, of a report or of a cancel tells of
\* more than was filled.
THEOREM FillsSoundCorrect == Spec => []FillsSound
<1>1. IInv => FillsSound
  BY DEF IInv, OrderInv, FillsSound
<1> QED
  BY <1>1, Invariance, PTL

\* orders.rs:181-243, 300-304: once nothing of an order is under way the manager
\* holds what the exchange holds, in whatever order the answers of submit and cancel
\* and the reports of the stream were written, if no report was missed.
THEOREM CaughtUpCorrect == Spec => []CaughtUp
<1>1. (\A o \in Orders : CatchInv(o)) => CaughtUp
  BY DEF CatchInv, Settled, CaughtUp, UnderWay
<1> QED
  BY <1>1, CatchInvariance, PTL
=============================================================================
