------------------------- MODULE PollOneoffProofs -------------------------
(***************************************************************************)
(* Proofs, for every fd table, rights, subscriptions and bounds, that the  *)
(* poll_oneoff model is well typed and that a PollBatch never holds a      *)
(* guard for an fd, stdin included, that lacks POLL_FD_READWRITE.          *)
(*                                                                         *)
(* poll_oneoff_internal's two loops and PollBatch::poll's loop are folds   *)
(* (FoldSubs) over the subscriptions and the guards, which TLA+ defines as *)
(* recursive functions.  For each of them we show that the function the    *)
(* definition chooses exists (by building it one index at a time) and then *)
(* what it computes, by induction over the index.  The induction principle *)
(* is SetInduction below, derived from the well-foundedness of < on Nat.   *)
(***************************************************************************)
EXTENDS PollOneoff, WellFoundedInduction, TLAPS

USE ConstantsAssumption, PollAssumption

-----------------------------------------------------------------------------
(* Every non-empty set of naturals has a least element.                    *)
LEMMA LeastNat ==
    ASSUME NEW T, T \subseteq Nat, T # {}
    PROVE  \E m \in T : \A k \in T : ~(k < m)
<1>1. IsWellFoundedOn(OpToRel(<, Nat), Nat)
    BY NatLessThanWellFounded
<1>2. \E x \in T : \A y \in T : ~(<<y, x>> \in OpToRel(<, Nat))
    BY <1>1, WFMin
<1>3. QED
    BY <1>2 DEF OpToRel

(* Induction over Nat, for the set of the naturals a property holds of:    *)
(* the least natural outside the set would have its predecessor inside.    *)
LEMMA SetInduction ==
    ASSUME NEW S, 0 \in S, \A n \in Nat : n \in S => n + 1 \in S
    PROVE  Nat \subseteq S
<1>1. SUFFICES ASSUME Nat \ S # {} PROVE FALSE
    OBVIOUS
<1>2. PICK m \in Nat \ S : \A k \in Nat \ S : ~(k < m)
    BY <1>1, LeastNat
<1>3. m # 0 /\ m - 1 \in Nat /\ m - 1 < m
    BY <1>2
<1>4. m - 1 \in S
    BY <1>2, <1>3
<1>5. QED
    BY <1>2, <1>3, <1>4

-----------------------------------------------------------------------------
(* The subscription array read from (n + poll_seed) % len holds, at every  *)
(* index, one of the guest's subscriptions, and has the array's length.    *)
LEMMA RotatedElems ==
    ASSUME NEW S, NEW s \in Seq(S), NEW sd \in Nat
    PROVE  /\ Rotated(s, sd) \in Seq(S)
           /\ Len(Rotated(s, sd)) = Len(s)
           /\ \A i \in 1..Len(s) : \E j \in 1..Len(s) : Rotated(s, sd)[i] = s[j]
<1>1. \A i \in 1..Len(s) : ((i - 1 + sd) % Len(s)) + 1 \in 1..Len(s)
    BY SMT
<1>2. \A i \in 1..Len(s) : s[((i - 1 + sd) % Len(s)) + 1] \in S
    BY <1>1
<1>3. Rotated(s, sd) \in [1..Len(s) -> S]
    BY <1>2, Zenon DEF Rotated
<1>4. Rotated(s, sd) \in Seq(S) /\ Len(Rotated(s, sd)) = Len(s)
    BY <1>3
<1>5. \A i \in 1..Len(s) : \E j \in 1..Len(s) : Rotated(s, sd)[i] = s[j]
    BY <1>1 DEF Rotated
<1>6. QED
    BY <1>4, <1>5

(* The guest's subscription arrays are sequences of at most MaxSubs        *)
(* subscriptions.                                                          *)
LEMMA SubSeqsTyped ==
    ASSUME NEW s \in SubSeqs
    PROVE  s \in Seq(SubRecords) /\ Len(s) <= MaxSubs
<1>1. PICK n \in 0..MaxSubs : s \in [1..n -> Subs]
    BY DEF SubSeqs
<1>2. s \in Seq(Subs) /\ Len(s) = n
    BY <1>1
<1>3. QED
    BY <1>1, <1>2

-----------------------------------------------------------------------------
(* The guard loop (poll_oneoff.rs:253-287).  Its state is the error so     *)
(* far and the guards pushed so far; every guard it pushes is for stdout,  *)
(* stderr or an fd with the poll right.                                    *)
GoodGuard == {gd \in Guard : gd.fd \in {1, 2} \cup PollRights}
GuardState == [err : {"ok", "Badf", "Access"}, guards : Seq(GoodGuard)]
GuardBase == [err |-> "ok", guards |-> << >>]

(* The recursive function FoldSubs(GuardStep, GuardBase, rs) chooses, and  *)
(* its defining equation restricted to 0..k.                               *)
GuardD(g, rs, i) == IF i = 0 THEN GuardBase ELSE GuardStep(g[i - 1], rs[i])
GuardF(rs) == CHOOSE f : f = [i \in 0..Len(rs) |-> GuardD(f, rs, i)]
GuardPrefix(rs, k) ==
    \E g : g = [i \in 0..k |-> g[i]] /\ \A i \in 0..k : g[i] = GuardD(g, rs, i)

(* One iteration keeps the loop's state well formed and pushes at most one *)
(* guard: the push of stdout or stderr, or of an fd that passed the rights *)
(* check.                                                                  *)
LEMMA GuardStepTyped ==
    ASSUME NEW st \in GuardState, NEW s \in SubRecords
    PROVE  /\ GuardStep(st, s) \in GuardState
           /\ Len(GuardStep(st, s).guards) <= Len(st.guards) + 1
<1> DEFINE push == [st EXCEPT !.guards = Append(@, GuardOf(s))]
           fail(e) == [st EXCEPT !.err = e]
<1>1. \A e \in {"Badf", "Access"} : fail(e) \in GuardState /\ fail(e).guards = st.guards
    BY DEF GuardState
<1>2. GuardOf(s) \in GoodGuard
      => push \in GuardState /\ push.guards = Append(st.guards, GuardOf(s))
    BY DEF GuardState
<1>3. ~(st.err /= "ok" \/ s.type = "Clock") /\ s.fd \in OpenFds
         /\ (s.fd \in {1, 2} \/ HasPollRights(s.fd))
      => GuardOf(s) \in GoodGuard
    BY DEF GuardOf, GoodGuard, Guard, SubRecords, HasPollRights
<1>4. \/ GuardStep(st, s) \in {st, fail("Badf"), fail("Access")}
      \/ GuardStep(st, s) = push /\ GuardOf(s) \in GoodGuard
    BY <1>3 DEF GuardStep
<1>5. CASE GuardStep(st, s) = st
    BY <1>5 DEF GuardState
<1>6. CASE GuardStep(st, s) \in {fail("Badf"), fail("Access")}
    <2>1. GuardStep(st, s) \in GuardState /\ GuardStep(st, s).guards = st.guards
        BY <1>1, <1>6, Zenon
    <2>2. QED BY <2>1 DEF GuardState
<1>7. CASE GuardStep(st, s) = push /\ GuardOf(s) \in GoodGuard
    <2>1. GuardStep(st, s) \in GuardState
          /\ GuardStep(st, s).guards = Append(st.guards, GuardOf(s))
        BY <1>2, <1>7, Zenon
    <2>2. QED BY <2>1 DEF GuardState
<1>8. QED
    BY <1>4, <1>5, <1>6, <1>7

(* The function FoldSubs(GuardStep, GuardBase, rs) chooses exists: the      *)
(* equation has a solution on 0..k for every k up to Len(rs), built from   *)
(* the one on 0..(k - 1) by one more iteration.                            *)
LEMMA GuardFoldExists ==
    ASSUME NEW rs \in Seq(SubRecords)
    PROVE  GuardF(rs) = [i \in 0..Len(rs) |-> GuardD(GuardF(rs), rs, i)]
<1>1. \A k \in Nat : k <= Len(rs) => GuardPrefix(rs, k)
    <2>1. GuardPrefix(rs, 0)
        <3> DEFINE g == [i \in 0..0 |-> GuardBase]
        <3>1. g = [i \in 0..0 |-> g[i]] /\ \A i \in 0..0 : g[i] = GuardD(g, rs, i)
            BY DEF GuardD
        <3>2. QED BY <3>1 DEF GuardPrefix
    <2>2. ASSUME NEW k \in Nat, k <= Len(rs) => GuardPrefix(rs, k), k + 1 <= Len(rs)
          PROVE  GuardPrefix(rs, k + 1)
        <3>1. PICK g : g = [i \in 0..k |-> g[i]]
                       /\ \A i \in 0..k : g[i] = GuardD(g, rs, i)
            BY <2>2 DEF GuardPrefix
        <3> DEFINE g2 == [i \in 0..(k + 1) |->
                            IF i <= k THEN g[i] ELSE GuardStep(g[k], rs[k + 1])]
        <3>2. \A i \in 0..(k + 1) : g2[i] = GuardD(g2, rs, i)
            <4> SUFFICES ASSUME NEW i \in 0..(k + 1) PROVE g2[i] = GuardD(g2, rs, i)
                OBVIOUS
            <4>1. CASE i = 0
                <5>1. g2[i] = g[0]
                    BY <4>1 DEF g2
                <5>2. g[0] = GuardD(g, rs, 0)
                    BY <3>1
                <5>3. QED BY <5>1, <5>2, <4>1 DEF GuardD
            <4>2. CASE i \in 1..k
                <5>1. g2[i] = g[i] /\ g2[i - 1] = g[i - 1]
                    BY <4>2 DEF g2
                <5>2. g[i] = GuardD(g, rs, i)
                    BY <3>1, <4>2
                <5>3. QED BY <5>1, <5>2, <4>2 DEF GuardD
            <4>3. CASE i = k + 1
                <5>1. g2[i] = GuardStep(g[k], rs[k + 1]) /\ g2[i - 1] = g[k]
                    BY <4>3 DEF g2
                <5>2. QED BY <5>1, <4>3 DEF GuardD
            <4>4. QED BY <4>1, <4>2, <4>3
        <3>3. g2 = [i \in 0..(k + 1) |-> g2[i]]
            OBVIOUS
        <3>4. QED BY <3>2, <3>3 DEF GuardPrefix
    <2> DEFINE T == {k \in Nat : k <= Len(rs) => GuardPrefix(rs, k)}
    <2>3. 0 \in T /\ \A k \in Nat : k \in T => k + 1 \in T
        BY <2>1, <2>2 DEF T
    <2>4. Nat \subseteq T
        BY <2>3, SetInduction
    <2>5. QED BY <2>4 DEF T
<1>2. PICK g : g = [i \in 0..Len(rs) |-> g[i]]
               /\ \A i \in 0..Len(rs) : g[i] = GuardD(g, rs, i)
    BY <1>1 DEF GuardPrefix
<1>3. g = [i \in 0..Len(rs) |-> GuardD(g, rs, i)]
    BY <1>2
<1>4. QED
    BY <1>3 DEF GuardF

(* The guard loop ends in a well-formed state with at most one guard per   *)
(* subscription, each of them for stdout, stderr or an fd with the right.  *)
LEMMA GuardFold ==
    ASSUME NEW rs \in Seq(SubRecords)
    PROVE  /\ FoldSubs(GuardStep, GuardBase, rs) \in GuardState
           /\ Len(FoldSubs(GuardStep, GuardBase, rs).guards) <= Len(rs)
<1> DEFINE f == GuardF(rs)
           Ok(k) == f[k] \in GuardState /\ Len(f[k].guards) <= k
<1>1. \A i \in 0..Len(rs) : f[i] = GuardD(f, rs, i)
    BY GuardFoldExists, Zenon
<1>2. FoldSubs(GuardStep, GuardBase, rs) = f[Len(rs)]
    BY DEF FoldSubs, GuardF, GuardD
<1>3. \A k \in Nat : k <= Len(rs) => Ok(k)
    <2>1. Ok(0)
        <3>1. f[0] = GuardBase
            BY <1>1 DEF GuardD
        <3>2. QED BY <3>1 DEF GuardBase, GuardState
    <2>2. ASSUME NEW k \in Nat, k <= Len(rs) => Ok(k), k + 1 <= Len(rs)
          PROVE  Ok(k + 1)
        <3>1. f[k + 1] = GuardStep(f[k], rs[k + 1]) /\ rs[k + 1] \in SubRecords
            BY <1>1, <2>2 DEF GuardD
        <3>2. QED BY <2>2, <3>1, GuardStepTyped
    <2> DEFINE T == {k \in Nat : k <= Len(rs) => Ok(k)}
    <2>3. 0 \in T /\ \A k \in Nat : k \in T => k + 1 \in T
        BY <2>1, <2>2 DEF T
    <2>4. Nat \subseteq T
        BY <2>3, SetInduction
    <2>5. QED BY <2>4 DEF T
<1>4. Ok(Len(rs))
    BY <1>3
<1>5. QED
    BY <1>2, <1>4, Zenon

-----------------------------------------------------------------------------
(* The first loop (poll_oneoff.rs:159-237).  Its state is the error so     *)
(* far, clock_subs and time_to_sleep, which is Duration::MAX (Infinity) or *)
(* the timeout of one of the subscriptions, 0 for the sentinel 1.          *)
CheckState(B) == [err : {"ok", "Badf", "Access", "Inval"},
                  clocks : Seq(SubRecords), tts : (0..B) \cup {Infinity}]
CheckBase == [err |-> "ok", clocks |-> << >>, tts |-> Infinity]

CheckD(g, rs, i) == IF i = 0 THEN CheckBase ELSE CheckStep(g[i - 1], rs[i])
CheckF(rs) == CHOOSE f : f = [i \in 0..Len(rs) |-> CheckD(f, rs, i)]
CheckPrefix(rs, k) ==
    \E g : g = [i \in 0..k |-> g[i]] /\ \A i \in 0..k : g[i] = CheckD(g, rs, i)

(* One iteration keeps the state well formed, with time_to_sleep at most   *)
(* the largest timeout B, and pushes at most one clock subscription.       *)
LEMMA CheckStepTyped ==
    ASSUME NEW B \in Nat, NEW st \in CheckState(B), NEW s \in SubRecords,
           s.timeout <= B
    PROVE  /\ CheckStep(st, s) \in CheckState(B)
           /\ Len(CheckStep(st, s).clocks) <= Len(st.clocks) + 1
<1> DEFINE fail(e) == [st EXCEPT !.err = e]
           sleep(t) == [st EXCEPT !.tts = t]
           push == [st EXCEPT !.tts = s.timeout, !.clocks = Append(@, s)]
<1>1. \A e \in {"Badf", "Access", "Inval", "ok"} :
         fail(e) \in CheckState(B) /\ fail(e).clocks = st.clocks
    BY DEF CheckState
<1>2. \A x \in (0..B) \cup {Infinity} :
         sleep(x) \in CheckState(B) /\ sleep(x).clocks = st.clocks
    BY DEF CheckState
<1>0. s.timeout \in 0..B
    BY DEF SubRecords
<1>11. Append(st.clocks, s) \in Seq(SubRecords)
    BY DEF CheckState
<1>3. push \in CheckState(B) /\ push.clocks = Append(st.clocks, s)
    BY <1>0, <1>11, Zenon DEF CheckState
<1>4. FdCheck(s) \in {"Badf", "Access", "ok"}
    BY DEF FdCheck
<1>5. \/ CheckStep(st, s) = st
      \/ \E e \in {"Badf", "Access", "Inval", "ok"} : CheckStep(st, s) = fail(e)
      \/ \E x \in (0..B) \cup {Infinity} : CheckStep(st, s) = sleep(x)
      \/ CheckStep(st, s) = push
    BY <1>4 DEF CheckStep, ClockStep
<1>6. CASE CheckStep(st, s) = st
    BY <1>6 DEF CheckState
<1>7. CASE \E e \in {"Badf", "Access", "Inval", "ok"} : CheckStep(st, s) = fail(e)
    <2>1. CheckStep(st, s) \in CheckState(B) /\ CheckStep(st, s).clocks = st.clocks
        BY <1>1, <1>7, Zenon
    <2>2. QED BY <2>1 DEF CheckState
<1>8. CASE \E x \in (0..B) \cup {Infinity} : CheckStep(st, s) = sleep(x)
    <2>0. PICK x \in (0..B) \cup {Infinity} : CheckStep(st, s) = sleep(x)
        BY <1>8
    <2>1. sleep(x) \in CheckState(B) /\ sleep(x).clocks = st.clocks
        BY <1>2
    <2>3. CheckStep(st, s) \in CheckState(B) /\ CheckStep(st, s).clocks = st.clocks
        BY <2>0, <2>1
    <2>2. QED BY <2>3 DEF CheckState
<1>9. CASE CheckStep(st, s) = push
    <2>1. CheckStep(st, s) \in CheckState(B)
          /\ CheckStep(st, s).clocks = Append(st.clocks, s)
        BY <1>3, <1>9, Zenon
    <2>2. QED BY <2>1 DEF CheckState
<1>10. QED
    BY <1>5, <1>6, <1>7, <1>8, <1>9

(* The function FoldSubs(CheckStep, CheckBase, rs) chooses exists, as     *)
(* for the guard loop.                                                     *)
LEMMA CheckFoldExists ==
    ASSUME NEW rs \in Seq(SubRecords)
    PROVE  CheckF(rs) = [i \in 0..Len(rs) |-> CheckD(CheckF(rs), rs, i)]
<1>1. \A k \in Nat : k <= Len(rs) => CheckPrefix(rs, k)
    <2>1. CheckPrefix(rs, 0)
        <3> DEFINE g == [i \in 0..0 |-> CheckBase]
        <3>1. g = [i \in 0..0 |-> g[i]] /\ \A i \in 0..0 : g[i] = CheckD(g, rs, i)
            BY DEF CheckD
        <3>2. QED BY <3>1 DEF CheckPrefix
    <2>2. ASSUME NEW k \in Nat, k <= Len(rs) => CheckPrefix(rs, k), k + 1 <= Len(rs)
          PROVE  CheckPrefix(rs, k + 1)
        <3>1. PICK g : g = [i \in 0..k |-> g[i]]
                       /\ \A i \in 0..k : g[i] = CheckD(g, rs, i)
            BY <2>2 DEF CheckPrefix
        <3> DEFINE g2 == [i \in 0..(k + 1) |->
                            IF i <= k THEN g[i] ELSE CheckStep(g[k], rs[k + 1])]
        <3>2. \A i \in 0..(k + 1) : g2[i] = CheckD(g2, rs, i)
            <4> SUFFICES ASSUME NEW i \in 0..(k + 1) PROVE g2[i] = CheckD(g2, rs, i)
                OBVIOUS
            <4>1. CASE i = 0
                <5>1. g2[i] = g[0]
                    BY <4>1 DEF g2
                <5>2. g[0] = CheckD(g, rs, 0)
                    BY <3>1
                <5>3. QED BY <5>1, <5>2, <4>1 DEF CheckD
            <4>2. CASE i \in 1..k
                <5>1. g2[i] = g[i] /\ g2[i - 1] = g[i - 1]
                    BY <4>2 DEF g2
                <5>2. g[i] = CheckD(g, rs, i)
                    BY <3>1, <4>2
                <5>3. QED BY <5>1, <5>2, <4>2 DEF CheckD
            <4>3. CASE i = k + 1
                <5>1. g2[i] = CheckStep(g[k], rs[k + 1]) /\ g2[i - 1] = g[k]
                    BY <4>3 DEF g2
                <5>2. QED BY <5>1, <4>3 DEF CheckD
            <4>4. QED BY <4>1, <4>2, <4>3
        <3>3. g2 = [i \in 0..(k + 1) |-> g2[i]]
            OBVIOUS
        <3>4. QED BY <3>2, <3>3 DEF CheckPrefix
    <2> DEFINE T == {k \in Nat : k <= Len(rs) => CheckPrefix(rs, k)}
    <2>3. 0 \in T /\ \A k \in Nat : k \in T => k + 1 \in T
        BY <2>1, <2>2 DEF T
    <2>4. Nat \subseteq T
        BY <2>3, SetInduction
    <2>5. QED BY <2>4 DEF T
<1>2. PICK g : g = [i \in 0..Len(rs) |-> g[i]]
               /\ \A i \in 0..Len(rs) : g[i] = CheckD(g, rs, i)
    BY <1>1 DEF CheckPrefix
<1>3. g = [i \in 0..Len(rs) |-> CheckD(g, rs, i)]
    BY <1>2
<1>4. QED
    BY <1>3 DEF CheckF

(* The first loop ends in a well-formed state with at most one clock       *)
(* subscription per subscription, and time_to_sleep Infinity or at most    *)
(* the largest timeout.                                                    *)
LEMMA CheckFold ==
    ASSUME NEW rs \in Seq(SubRecords), NEW B \in Nat,
           \A i \in 1..Len(rs) : rs[i].timeout <= B
    PROVE  /\ FoldSubs(CheckStep, CheckBase, rs) \in CheckState(B)
           /\ Len(FoldSubs(CheckStep, CheckBase, rs).clocks) <= Len(rs)
<1> DEFINE f == CheckF(rs)
           Ok(k) == f[k] \in CheckState(B) /\ Len(f[k].clocks) <= k
<1>1. \A i \in 0..Len(rs) : f[i] = CheckD(f, rs, i)
    BY CheckFoldExists, Zenon
<1>2. FoldSubs(CheckStep, CheckBase, rs) = f[Len(rs)]
    BY DEF FoldSubs, CheckF, CheckD
<1>3. \A k \in Nat : k <= Len(rs) => Ok(k)
    <2>1. Ok(0)
        <3>1. f[0] = CheckBase
            BY <1>1 DEF CheckD
        <3>2. QED BY <3>1 DEF CheckBase, CheckState
    <2>2. ASSUME NEW k \in Nat, k <= Len(rs) => Ok(k), k + 1 <= Len(rs)
          PROVE  Ok(k + 1)
        <3>1. f[k + 1] = CheckStep(f[k], rs[k + 1]) /\ rs[k + 1] \in SubRecords
            BY <1>1, <2>2 DEF CheckD
        <3>2. rs[k + 1].timeout <= B
            BY <2>2
        <3>3. QED BY <2>2, <3>1, <3>2, CheckStepTyped
    <2> DEFINE T == {k \in Nat : k <= Len(rs) => Ok(k)}
    <2>3. 0 \in T /\ \A k \in Nat : k \in T => k + 1 \in T
        BY <2>1, <2>2 DEF T
    <2>4. Nat \subseteq T
        BY <2>3, SetInduction
    <2>5. QED BY <2>4 DEF T
<1>4. Ok(Len(rs))
    BY <1>3
<1>5. QED
    BY <1>2, <1>4, Zenon

-----------------------------------------------------------------------------
(* PollBatch::poll's loop over the guards (poll_oneoff.rs:98-117).         *)
ReadyD(g, rs, i) == IF i = 0 THEN NoEvents ELSE PollGuard(g[i - 1], rs[i])
ReadyF(rs) == CHOOSE f : f = [i \in 0..Len(rs) |-> ReadyD(f, rs, i)]
ReadyPrefix(rs, k) ==
    \E g : g = [i \in 0..k |-> g[i]] /\ \A i \in 0..k : g[i] = ReadyD(g, rs, i)

(* Polling one guard pushes at most one event.                             *)
LEMMA PollGuardTyped ==
    ASSUME NEW es \in Seq(Event), NEW gd \in Guard
    PROVE  PollGuard(es, gd) \in Seq(Event) /\ Len(PollGuard(es, gd)) <= Len(es) + 1
<1>1. [userdata |-> gd.userdata, type |-> gd.type] \in Event
    BY DEF Event, Guard
<1>2. CASE gd.fd \in ready
    <2>1. PollGuard(es, gd) = Append(es, [userdata |-> gd.userdata, type |-> gd.type])
        BY <1>2 DEF PollGuard
    <2>2. QED BY <1>1, <2>1
<1>3. CASE gd.fd \notin ready
    <2>1. PollGuard(es, gd) = es
        BY <1>3 DEF PollGuard
    <2>2. QED BY <2>1
<1>4. QED
    BY <1>2, <1>3

(* The function FoldSubs(PollGuard, NoEvents, rs) chooses exists, as for   *)
(* the guard loop.                                                         *)
LEMMA ReadyFoldExists ==
    ASSUME NEW rs \in Seq(Guard)
    PROVE  ReadyF(rs) = [i \in 0..Len(rs) |-> ReadyD(ReadyF(rs), rs, i)]
<1>1. \A k \in Nat : k <= Len(rs) => ReadyPrefix(rs, k)
    <2>1. ReadyPrefix(rs, 0)
        <3> DEFINE g == [i \in 0..0 |-> NoEvents]
        <3>1. g = [i \in 0..0 |-> g[i]] /\ \A i \in 0..0 : g[i] = ReadyD(g, rs, i)
            BY DEF ReadyD
        <3>2. QED BY <3>1 DEF ReadyPrefix
    <2>2. ASSUME NEW k \in Nat, k <= Len(rs) => ReadyPrefix(rs, k), k + 1 <= Len(rs)
          PROVE  ReadyPrefix(rs, k + 1)
        <3>1. PICK g : g = [i \in 0..k |-> g[i]]
                       /\ \A i \in 0..k : g[i] = ReadyD(g, rs, i)
            BY <2>2 DEF ReadyPrefix
        <3> DEFINE g2 == [i \in 0..(k + 1) |->
                            IF i <= k THEN g[i] ELSE PollGuard(g[k], rs[k + 1])]
        <3>2. \A i \in 0..(k + 1) : g2[i] = ReadyD(g2, rs, i)
            <4> SUFFICES ASSUME NEW i \in 0..(k + 1) PROVE g2[i] = ReadyD(g2, rs, i)
                OBVIOUS
            <4>1. CASE i = 0
                <5>1. g2[i] = g[0]
                    BY <4>1 DEF g2
                <5>2. g[0] = ReadyD(g, rs, 0)
                    BY <3>1
                <5>3. QED BY <5>1, <5>2, <4>1 DEF ReadyD
            <4>2. CASE i \in 1..k
                <5>1. g2[i] = g[i] /\ g2[i - 1] = g[i - 1]
                    BY <4>2 DEF g2
                <5>2. g[i] = ReadyD(g, rs, i)
                    BY <3>1, <4>2
                <5>3. QED BY <5>1, <5>2, <4>2 DEF ReadyD
            <4>3. CASE i = k + 1
                <5>1. g2[i] = PollGuard(g[k], rs[k + 1]) /\ g2[i - 1] = g[k]
                    BY <4>3 DEF g2
                <5>2. QED BY <5>1, <4>3 DEF ReadyD
            <4>4. QED BY <4>1, <4>2, <4>3
        <3>3. g2 = [i \in 0..(k + 1) |-> g2[i]]
            OBVIOUS
        <3>4. QED BY <3>2, <3>3 DEF ReadyPrefix
    <2> DEFINE T == {k \in Nat : k <= Len(rs) => ReadyPrefix(rs, k)}
    <2>3. 0 \in T /\ \A k \in Nat : k \in T => k + 1 \in T
        BY <2>1, <2>2 DEF T
    <2>4. Nat \subseteq T
        BY <2>3, SetInduction
    <2>5. QED BY <2>4 DEF T
<1>2. PICK g : g = [i \in 0..Len(rs) |-> g[i]]
               /\ \A i \in 0..Len(rs) : g[i] = ReadyD(g, rs, i)
    BY <1>1 DEF ReadyPrefix
<1>3. g = [i \in 0..Len(rs) |-> ReadyD(g, rs, i)]
    BY <1>2
<1>4. QED
    BY <1>3 DEF ReadyF

(* The batch yields at most one event per guard.                           *)
LEMMA ReadyFold ==
    ASSUME NEW rs \in Seq(Guard)
    PROVE  ReadyOf(rs) \in Seq(Event) /\ Len(ReadyOf(rs)) <= Len(rs)
<1> DEFINE f == ReadyF(rs)
           Ok(k) == f[k] \in Seq(Event) /\ Len(f[k]) <= k
<1>1. \A i \in 0..Len(rs) : f[i] = ReadyD(f, rs, i)
    BY ReadyFoldExists, Zenon
<1>2. ReadyOf(rs) = f[Len(rs)]
    BY DEF ReadyOf, FoldSubs, ReadyF, ReadyD
<1>3. \A k \in Nat : k <= Len(rs) => Ok(k)
    <2>1. Ok(0)
        <3>1. f[0] = NoEvents
            BY <1>1 DEF ReadyD
        <3>2. QED BY <3>1 DEF NoEvents
    <2>2. ASSUME NEW k \in Nat, k <= Len(rs) => Ok(k), k + 1 <= Len(rs)
          PROVE  Ok(k + 1)
        <3>1. f[k + 1] = PollGuard(f[k], rs[k + 1]) /\ rs[k + 1] \in Guard
            BY <1>1, <2>2 DEF ReadyD
        <3>2. QED BY <2>2, <3>1, PollGuardTyped
    <2> DEFINE T == {k \in Nat : k <= Len(rs) => Ok(k)}
    <2>3. 0 \in T /\ \A k \in Nat : k \in T => k + 1 \in T
        BY <2>1, <2>2 DEF T
    <2>4. Nat \subseteq T
        BY <2>3, SetInduction
    <2>5. QED BY <2>4 DEF T
<1>4. Ok(Len(rs))
    BY <1>3
<1>5. QED
    BY <1>2, <1>4, Zenon

-----------------------------------------------------------------------------
(* What poll_oneoff_internal has built before it waits: guards for stdout, *)
(* stderr and fds with the poll right only, at most one guard and one      *)
(* clock subscription per subscription, and a time_to_sleep that is none   *)
(* or at most the largest timeout.                                         *)
LEMMA PreparedTyped ==
    ASSUME NEW rs \in Seq(SubRecords), NEW B \in Nat,
           \A i \in 1..Len(rs) : rs[i].timeout <= B
    PROVE  /\ Prepared(rs).guards \in Seq(GoodGuard)
           /\ Len(Prepared(rs).guards) <= Len(rs)
           /\ Prepared(rs).clocks \in Seq(SubRecords)
           /\ Len(Prepared(rs).clocks) <= Len(rs)
           /\ Prepared(rs).tts \in (0..B) \cup {Infinity}
<1> DEFINE chk == FoldSubs(CheckStep, CheckBase, rs)
           grd == FoldSubs(GuardStep, GuardBase, rs)
<1>1. /\ Prepared(rs).guards = grd.guards
      /\ Prepared(rs).clocks = chk.clocks
      /\ Prepared(rs).tts = chk.tts
    BY DEF Prepared, CheckBase, GuardBase
<1>2. chk \in CheckState(B) /\ Len(chk.clocks) <= Len(rs)
    BY CheckFold
<1>3. grd \in GuardState /\ Len(grd.guards) <= Len(rs)
    BY GuardFold
<1>4. QED
    BY <1>1, <1>2, <1>3 DEF CheckState, GuardState

(* For a fresh call at instant t whose timeouts end by MaxTime, whatever   *)
(* the seed: the rotated subscriptions give at most MaxSubs guards, all    *)
(* with the poll right or stdout/stderr, at most MaxSubs clock             *)
(* subscriptions, and a timeout that is none or ends by MaxTime.           *)
LEMMA FreshPrepared ==
    ASSUME NEW s \in SubSeqs, NEW sd \in Nat, NEW t \in 0..MaxTime,
           \A i \in DOMAIN s : t + s[i].timeout <= MaxTime
    PROVE  LET r == Prepared(Rotated(s, sd)) IN
           /\ r.guards \in Seq(GoodGuard)
           /\ Len(r.guards) <= MaxSubs
           /\ r.clocks \in Seq(SubRecords)
           /\ Len(r.clocks) <= MaxSubs
           /\ r.tts = Infinity \/ (r.tts \in Nat /\ t + r.tts <= MaxTime)
<1> DEFINE rs == Rotated(s, sd)
           B == MaxTime - t
<1>1. s \in Seq(SubRecords) /\ Len(s) <= MaxSubs
    BY SubSeqsTyped
<1>2. /\ rs \in Seq(SubRecords)
      /\ Len(rs) = Len(s)
      /\ \A i \in 1..Len(s) : \E j \in 1..Len(s) : rs[i] = s[j]
    BY <1>1, RotatedElems
<1>3. \A i \in 1..Len(rs) : rs[i].timeout <= B
    <2> SUFFICES ASSUME NEW i \in 1..Len(rs) PROVE rs[i].timeout <= B
        OBVIOUS
    <2>1. PICK j \in 1..Len(s) : rs[i] = s[j]
        BY <1>2
    <2>2. j \in DOMAIN s /\ s[j] \in SubRecords
        BY <1>1
    <2>4. t + s[j].timeout <= MaxTime /\ s[j].timeout \in Nat
        BY <2>2 DEF SubRecords
    <2>3. QED BY <2>1, <2>4 DEF B
<1>4. /\ Prepared(rs).guards \in Seq(GoodGuard)
      /\ Len(Prepared(rs).guards) <= Len(rs)
      /\ Prepared(rs).clocks \in Seq(SubRecords)
      /\ Len(Prepared(rs).clocks) <= Len(rs)
      /\ Prepared(rs).tts \in (0..B) \cup {Infinity}
    <2>1. B \in Nat
        BY DEF B
    <2>2. QED BY <1>2, <1>3, <2>1, PreparedTyped
<1>5. QED
    BY <1>1, <1>2, <1>4 DEF B

-----------------------------------------------------------------------------
(* poll_seed is bumped once on every entry into poll_oneoff, twice for a   *)
(* call that went through a deep sleep (the fresh entry and the replay),   *)
(* and each fresh entry counts as a call: the seed is at most twice the    *)
(* number of calls, and one less while a call waits for its replay.        *)
SeedBound ==
    \A p \in Procs :
        seed[p] + (IF syscall[p] = "poll" THEN 1 ELSE 0) <= 2 * calls[p]

(* A batch holds at most MaxSubs guards and clock subscriptions, so that    *)
(* nevents stays within the guest's nsubscriptions.                        *)
BatchBounded ==
    \A p \in Procs :
        Len(batch[p].guards) <= MaxSubs /\ Len(batch[p].clocks) <= MaxSubs

(* The inductive strengthening of PollTypeOK and PollGuardsHaveRights.      *)
PollInv == PollTypeOK /\ PollGuardsHaveRights /\ SeedBound /\ BatchBounded

BatchRecs == [subs : Seq(SubRecords), guards : Seq(Guard),
              clocks : Seq(SubRecords), start : 0..MaxTime]

(* The exit-code tables of the two runners only produce codes of the       *)
(* WASI exit-code enumeration.                                              *)
LEMMA RunnerCodesTyped ==
    \A o \in Outcomes : /\ ExecExitCode[o] \in Codes
                        /\ ForkExitCode[o] \in Codes
BY DEF ExecExitCode, ForkExitCode, Outcomes, Codes

(* The steps of the runners and the scheduler leave the poll's state       *)
(* alone; they set syscall only to "none" and never change the counters.   *)
LEMMA SchedInvStep ==
    ASSUME PollInv, SchedNext, UNCHANGED pollVars
    PROVE  PollInv'
<1>1. UNCHANGED <<seed, nevents, evts, batch, ready>>
    BY DEF pollVars
<1>2. /\ seed' \in [Procs -> 0..2 * MaxCalls]
      /\ nevents' \in [Procs -> 0..MaxSubs]
      /\ evts' \in [Procs -> Seq(Event)]
      /\ batch' \in [Procs -> BatchRecs]
      /\ ready' \subseteq OpenFds
      /\ PollGuardsHaveRights'
      /\ BatchBounded'
    BY <1>1 DEF PollInv, PollTypeOK, BatchRecs, PollGuardsHaveRights,
                BatchBounded
<1>0. SchedTypeOK /\ SeedBound /\ seed \in [Procs -> 0..2 * MaxCalls]
    BY DEF PollInv, PollTypeOK
<1>3. SchedTypeOK'
    <2> USE <1>0, <1>1 DEF SchedTypeOK, Status, Syscalls, Codes, NoCode, Causes,
                           Outcomes, Time, Infinity
    <2>1. CASE Tick
        BY <2>1 DEF Tick
    <2>2. ASSUME NEW p \in Procs, Launch(p) PROVE SchedTypeOK'
        BY <2>2 DEF Launch
    <2>3. ASSUME NEW p \in Procs, GuestEnd(p) PROVE SchedTypeOK'
        BY <2>3, RunnerCodesTyped DEF GuestEnd, Finish, ExitCodeFor
    <2>4. ASSUME NEW p \in Procs, BlockKilled(p) PROVE SchedTypeOK'
        BY <2>4, RunnerCodesTyped DEF BlockKilled, Finish, ExitCodeFor
    <2>5. ASSUME NEW p \in Procs, Unwind(p) PROVE SchedTypeOK'
        BY <2>5 DEF Unwind
    <2>6. ASSUME NEW p \in Procs, Signal(p) PROVE SchedTypeOK'
        BY <2>6 DEF Signal
    <2>7. QED
        BY <2>1, <2>2, <2>3, <2>4, <2>5, <2>6 DEF SchedNext
<1>5. SeedBound'
    <2> USE <1>0, <1>1 DEF SeedBound, SchedTypeOK
    <2>1. CASE Tick
        BY <2>1 DEF Tick
    <2>2. ASSUME NEW p \in Procs, Launch(p) PROVE SeedBound'
        BY <2>2 DEF Launch
    <2>3. ASSUME NEW p \in Procs, GuestEnd(p) PROVE SeedBound'
        BY <2>3 DEF GuestEnd, Finish
    <2>4. ASSUME NEW p \in Procs, BlockKilled(p) PROVE SeedBound'
        BY <2>4 DEF BlockKilled, Finish
    <2>5. ASSUME NEW p \in Procs, Unwind(p) PROVE SeedBound'
        BY <2>5 DEF Unwind
    <2>6. ASSUME NEW p \in Procs, Signal(p) PROVE SeedBound'
        BY <2>6 DEF Signal
    <2>7. QED
        BY <2>1, <2>2, <2>3, <2>4, <2>5, <2>6 DEF SchedNext
<1>4. QED
    BY <1>2, <1>3, <1>5 DEF PollInv, PollTypeOK, BatchRecs

(* The events of a batch whose guards are well typed: at most one per      *)
(* guard, and one per clock subscription on a timeout.                     *)
LEMMA BatchEvents ==
    ASSUME PollInv, NEW p \in Procs
    PROVE  /\ ReadyEvents(p) \in Seq(Event)
           /\ Len(ReadyEvents(p)) \in 0..MaxSubs
           /\ ClockEvents(p) \in Seq(Event)
           /\ Len(ClockEvents(p)) \in 0..MaxSubs
<1>1. batch[p] \in BatchRecs /\ Len(batch[p].guards) <= MaxSubs
      /\ Len(batch[p].clocks) <= MaxSubs
    BY DEF PollInv, PollTypeOK, BatchBounded, BatchRecs
<1>2. ReadyEvents(p) \in Seq(Event) /\ Len(ReadyEvents(p)) <= Len(batch[p].guards)
    BY <1>1, ReadyFold DEF ReadyEvents, BatchRecs
<1>3. ClockEvents(p) \in Seq(Event) /\ Len(ClockEvents(p)) = Len(batch[p].clocks)
    <2> DEFINE cl == batch[p].clocks
    <2>1. cl \in Seq(SubRecords)
        BY <1>1 DEF BatchRecs, cl
    <2>2. \A i \in DOMAIN cl : [userdata |-> cl[i].userdata, type |-> "Clock"] \in Event
        <3> SUFFICES ASSUME NEW i \in DOMAIN cl
                     PROVE  [userdata |-> cl[i].userdata, type |-> "Clock"] \in Event
            OBVIOUS
        <3>1. cl[i] \in SubRecords
            BY <2>1
        <3>2. cl[i].userdata \in Nat
            BY <3>1 DEF SubRecords
        <3>3. QED BY <3>2 DEF Event
    <2>3. ClockEvents(p) \in [DOMAIN cl -> Event]
        BY <2>2 DEF ClockEvents, cl
    <2>4. DOMAIN cl = 1..Len(cl) /\ Len(cl) \in Nat
        BY <2>1
    <2>5. QED
        BY <2>3, <2>4 DEF cl
<1>4. QED
    BY <1>1, <1>2, <1>3

(* A batch of good guards passes the capability check and is well typed.   *)
LEMMA GoodGuardsTyped ==
    ASSUME NEW gs \in Seq(GoodGuard)
    PROVE  /\ gs \in Seq(Guard)
           /\ \A i \in DOMAIN gs : gs[i].fd \in {1, 2} \union PollRights
BY DEF GoodGuard

(* A fresh call (outer poll_oneoff plus poll_oneoff_internal up to the     *)
(* wait): the seed and the call counter go up by one, the guest was        *)
(* outside any syscall, and the batch built from the subscriptions rotated *)
(* by the new seed is well typed, bounded and holds only good guards.      *)
LEMMA FreshCallFacts ==
    ASSUME PollInv, NEW p \in Procs, NEW s \in SubSeqs, FreshCall(p, s)
    PROVE  LET r == Prepared(Rotated(s, seed'[p])) IN
           /\ seed' = [seed EXCEPT ![p] = @ + 1]
           /\ calls' = [calls EXCEPT ![p] = @ + 1]
           /\ calls[p] < MaxCalls
           /\ syscall[p] = "none"
           /\ status[p] = "running"
           /\ r.guards \in Seq(Guard)
           /\ \A i \in DOMAIN r.guards : r.guards[i].fd \in {1, 2} \union PollRights
           /\ Len(r.guards) <= MaxSubs
           /\ [subs |-> s, guards |-> r.guards, clocks |-> r.clocks, start |-> now]
                 \in BatchRecs
           /\ Len(r.clocks) <= MaxSubs
           /\ r.tts = Infinity \/ (r.tts \in Nat /\ now + r.tts <= MaxTime)
           /\ ReadyOf(r.guards) \in Seq(Event)
           /\ Len(ReadyOf(r.guards)) \in 0..MaxSubs
<1> DEFINE r == Prepared(Rotated(s, seed'[p]))
<1>1. /\ seed' = [seed EXCEPT ![p] = @ + 1]
      /\ calls' = [calls EXCEPT ![p] = @ + 1]
      /\ ~rewinding[p]
      /\ \A i \in DOMAIN s : now + s[i].timeout <= MaxTime
    BY DEF FreshCall, Enter
<1>2. calls[p] < MaxCalls /\ syscall[p] = "none" /\ status[p] = "running"
    BY <1>1 DEF FreshCall, Enter, CanEnter
<1>3. seed'[p] \in Nat /\ now \in 0..MaxTime
    BY <1>1 DEF PollInv, PollTypeOK, SchedTypeOK
<1>4. /\ r.guards \in Seq(GoodGuard)
      /\ Len(r.guards) <= MaxSubs
      /\ r.clocks \in Seq(SubRecords)
      /\ Len(r.clocks) <= MaxSubs
      /\ r.tts = Infinity \/ (r.tts \in Nat /\ now + r.tts <= MaxTime)
    BY <1>1, <1>3, FreshPrepared
<1>5. r.guards \in Seq(Guard)
      /\ \A i \in DOMAIN r.guards : r.guards[i].fd \in {1, 2} \union PollRights
    BY <1>4, GoodGuardsTyped
<1>6. s \in Seq(SubRecords)
    BY SubSeqsTyped
<1>7. ReadyOf(r.guards) \in Seq(Event) /\ Len(ReadyOf(r.guards)) <= Len(r.guards)
    BY <1>5, ReadyFold
<1>8. QED
    BY <1>1, <1>2, <1>3, <1>4, <1>5, <1>6, <1>7 DEF BatchRecs

(* The poll's own variables are well typed.                                *)
PollVarsOK ==
    /\ seed \in [Procs -> 0..2 * MaxCalls]
    /\ nevents \in [Procs -> 0..MaxSubs]
    /\ evts \in [Procs -> Seq(Event)]
    /\ batch \in [Procs -> BatchRecs]
    /\ ready \subseteq OpenFds

LEMMA InvParts ==
    PollInv => /\ SchedTypeOK /\ PollVarsOK /\ PollGuardsHaveRights
               /\ SeedBound /\ BatchBounded
BY DEF PollInv, PollTypeOK, PollVarsOK, BatchRecs

LEMMA InvFromParts ==
    ASSUME SchedTypeOK', PollVarsOK', PollGuardsHaveRights', SeedBound',
           BatchBounded'
    PROVE  PollInv'
BY DEF PollInv, PollTypeOK, PollVarsOK, BatchRecs

(* The steps that end the call without touching the batch: the signal     *)
(* check, the replay's handle_rewind, and the respawn after a signal.      *)
LEMMA PollQuietStep ==
    ASSUME PollInv, NEW p \in Procs,
           PollKilled(p) \/ PollRewound(p) \/ PollWakeSignal(p)
    PROVE  PollInv'
<1>0. SchedTypeOK /\ PollVarsOK /\ PollGuardsHaveRights /\ SeedBound
      /\ BatchBounded
    BY InvParts
<1>1. UNCHANGED <<evts, batch, ready>>
    BY DEF PollKilled, PollRewound, PollWakeSignal, pollVars
<1>2. PollGuardsHaveRights' /\ BatchBounded'
    BY <1>0, <1>1 DEF PollGuardsHaveRights, BatchBounded
<1>3. CASE PollKilled(p)
    <2>1. UNCHANGED <<seed, nevents, runner, deadline, window, sigs, now, calls>>
          /\ Finish(p, "killed")
        BY <1>3 DEF PollKilled, ProcessSignalsAndExit, pollVars
    <2>2. SchedTypeOK'
        BY <1>0, <2>1, RunnerCodesTyped
           DEF Finish, ExitCodeFor, SchedTypeOK, Status, Syscalls, Codes, NoCode,
               Causes, Outcomes
    <2>3. SeedBound'
        BY <1>0, <2>1 DEF Finish, SeedBound, SchedTypeOK, PollVarsOK
    <2>4. PollVarsOK'
        BY <1>0, <1>1, <2>1 DEF PollVarsOK
    <2>5. QED BY <1>2, <2>2, <2>3, <2>4, InvFromParts
<1>4. CASE PollRewound(p)
    <2>1. /\ seed' = [seed EXCEPT ![p] = @ + 1]
          /\ nevents' = [nevents EXCEPT ![p] = 0]
          /\ rewinding[p] /\ syscall[p] = "poll"
          /\ rewinding' = [rewinding EXCEPT ![p] = FALSE]
          /\ syscall' = [syscall EXCEPT ![p] = "none"]
          /\ deadline' = [deadline EXCEPT ![p] = Infinity]
          /\ UNCHANGED <<status, runner, window, sigs, code, cause, now, calls>>
        BY <1>4 DEF PollRewound, Enter, CanEnter, HandleRewind
    <2>2. SchedTypeOK'
        BY <1>0, <2>1 DEF SchedTypeOK, Syscalls, Time, Infinity
    <2>3. SeedBound'
        BY <1>0, <2>1 DEF SeedBound, SchedTypeOK, PollVarsOK
    <2>4. seed' \in [Procs -> 0..2 * MaxCalls]
        <3>1. seed[p] + 1 <= 2 * calls[p] /\ calls[p] \in 0..MaxCalls
            BY <1>0, <2>1 DEF SeedBound, SchedTypeOK
        <3>2. seed[p] + 1 \in 0..2 * MaxCalls
            <4>1. seed[p] \in 0..2 * MaxCalls
                BY <1>0 DEF PollVarsOK
            <4>2. QED BY <3>1, <4>1
        <3>3. QED BY <1>0, <2>1, <3>2 DEF PollVarsOK
    <2>5. PollVarsOK'
        BY <1>0, <1>1, <2>1, <2>4 DEF PollVarsOK
    <2>6. QED BY <1>2, <2>2, <2>3, <2>5, InvFromParts
<1>5. CASE PollWakeSignal(p)
    <2>1. /\ status[p] = "sleeping"
          /\ status' = [status EXCEPT ![p] = "running"]
          /\ rewinding' = [rewinding EXCEPT ![p] = TRUE]
          /\ UNCHANGED <<runner, syscall, deadline, window, sigs, code, cause,
                         now, calls, seed, nevents>>
        BY <1>5 DEF PollWakeSignal, Respawn, pollVars
    <2>2. SchedTypeOK'
        BY <1>0, <2>1 DEF SchedTypeOK, Status
    <2>3. SeedBound'
        BY <1>0, <2>1 DEF SeedBound
    <2>4. PollVarsOK'
        BY <1>0, <1>1, <2>1 DEF PollVarsOK
    <2>5. QED BY <1>2, <2>2, <2>3, <2>4, InvFromParts
<1>6. QED
    BY <1>3, <1>4, <1>5

(* A fresh call bumps poll_seed and the call count together, so the seed   *)
(* stays within twice the calls whatever the call then does.               *)
LEMMA FreshSeed ==
    ASSUME PollInv, NEW p \in Procs, NEW s \in SubSeqs, FreshCall(p, s),
           \A q \in Procs \ {p} : syscall'[q] = syscall[q]
    PROVE  /\ seed' \in [Procs -> 0..2 * MaxCalls]
           /\ calls' \in [Procs -> 0..MaxCalls]
           /\ SeedBound'
<1>1. /\ seed' = [seed EXCEPT ![p] = @ + 1]
      /\ calls' = [calls EXCEPT ![p] = @ + 1]
      /\ calls[p] < MaxCalls /\ syscall[p] = "none"
    BY FreshCallFacts
<1>2. /\ seed \in [Procs -> 0..2 * MaxCalls]
      /\ calls \in [Procs -> 0..MaxCalls]
      /\ SeedBound
    BY InvParts DEF SchedTypeOK, PollVarsOK
<1>3. seed[p] <= 2 * calls[p]
    BY <1>1, <1>2 DEF SeedBound
<1>4. seed[p] + 1 \in 0..2 * MaxCalls /\ calls[p] + 1 \in 0..MaxCalls
    BY <1>1, <1>2, <1>3
<1>5. seed' \in [Procs -> 0..2 * MaxCalls] /\ calls' \in [Procs -> 0..MaxCalls]
    BY <1>1, <1>2, <1>4
<1>6. SeedBound'
    <2> SUFFICES ASSUME NEW q \in Procs
                 PROVE  seed'[q] + (IF syscall'[q] = "poll" THEN 1 ELSE 0)
                            <= 2 * calls'[q]
        BY DEF SeedBound
    <2>1. CASE q = p
        BY <2>1, <1>1, <1>2, <1>3
    <2>2. CASE q /= p
        BY <2>2, <1>1, <1>2 DEF SeedBound
    <2>3. QED BY <2>1, <2>2
<1>7. QED BY <1>5, <1>6

(* The batch a fresh call stores keeps its guards' rights and its bounds.  *)
LEMMA FreshBatch ==
    ASSUME PollInv, NEW p \in Procs, NEW s \in SubSeqs, FreshCall(p, s),
           batch' = [batch EXCEPT ![p] =
                       [subs |-> s,
                        guards |-> Prepared(Rotated(s, seed'[p])).guards,
                        clocks |-> Prepared(Rotated(s, seed'[p])).clocks,
                        start |-> now]]
    PROVE  /\ batch' \in [Procs -> BatchRecs]
           /\ PollGuardsHaveRights'
           /\ BatchBounded'
<1> DEFINE r == Prepared(Rotated(s, seed'[p]))
           rec == [subs |-> s, guards |-> r.guards, clocks |-> r.clocks,
                   start |-> now]
<1>1. /\ rec \in BatchRecs
      /\ \A i \in DOMAIN r.guards : r.guards[i].fd \in {1, 2} \union PollRights
      /\ Len(r.guards) <= MaxSubs
      /\ Len(r.clocks) <= MaxSubs
    BY FreshCallFacts
<1>2. batch \in [Procs -> BatchRecs] /\ PollGuardsHaveRights /\ BatchBounded
    BY InvParts DEF PollVarsOK
<1>3. rec.guards = r.guards /\ rec.clocks = r.clocks
    OBVIOUS
<1>4. batch' \in [Procs -> BatchRecs]
    BY <1>1, <1>2
<1>5. \A q \in Procs : batch'[q] = IF q = p THEN rec ELSE batch[q]
    BY <1>2
<1>6. PollGuardsHaveRights'
    <2> SUFFICES ASSUME NEW q \in Procs, NEW i \in DOMAIN batch'[q].guards
                 PROVE  batch'[q].guards[i].fd \in {1, 2} \union PollRights
        BY DEF PollGuardsHaveRights
    <2>1. CASE q = p
        BY <2>1, <1>1, <1>3, <1>5
    <2>2. CASE q /= p
        BY <2>2, <1>2, <1>5 DEF PollGuardsHaveRights
    <2>3. QED BY <2>1, <2>2
<1>7. BatchBounded'
    <2> SUFFICES ASSUME NEW q \in Procs
                 PROVE  Len(batch'[q].guards) <= MaxSubs
                        /\ Len(batch'[q].clocks) <= MaxSubs
        BY DEF BatchBounded
    <2>1. CASE q = p
        BY <2>1, <1>1, <1>3, <1>5
    <2>2. CASE q /= p
        BY <2>2, <1>2, <1>5 DEF BatchBounded
    <2>3. QED BY <2>1, <2>2
<1>8. QED BY <1>4, <1>6, <1>7

(* A fresh call that fails a check, polls once, or starts to wait.         *)
LEMMA PollFreshStep ==
    ASSUME PollInv, NEW p \in Procs,
           PollError(p) \/ PollNow(p) \/ PollBlock(p)
    PROVE  PollInv'
<1>0. SchedTypeOK /\ PollVarsOK /\ PollGuardsHaveRights /\ SeedBound
      /\ BatchBounded
    BY InvParts
<1>1. CASE PollError(p)
    <2>1. PICK s \in SubSeqs :
             /\ FreshCall(p, s)
             /\ nevents' = [nevents EXCEPT ![p] = 0]
             /\ evts' = [evts EXCEPT ![p] = NoEvents]
             /\ UNCHANGED <<status, runner, syscall, rewinding, deadline,
                            window, sigs, code, cause, now>>
             /\ UNCHANGED <<batch, ready>>
        BY <1>1 DEF PollError
    <2>2. /\ seed' \in [Procs -> 0..2 * MaxCalls]
          /\ calls' \in [Procs -> 0..MaxCalls]
          /\ SeedBound'
        BY <2>1, FreshSeed
    <2>3. SchedTypeOK'
        BY <1>0, <2>1, <2>2 DEF SchedTypeOK
    <2>4. PollVarsOK'
        <3>1. NoEvents \in Seq(Event)
            BY DEF NoEvents
        <3>2. evts' \in [Procs -> Seq(Event)] /\ nevents' \in [Procs -> 0..MaxSubs]
            BY <1>0, <2>1, <3>1 DEF PollVarsOK
        <3>3. QED BY <1>0, <2>1, <2>2, <3>2 DEF PollVarsOK
    <2>5. PollGuardsHaveRights' /\ BatchBounded'
        BY <1>0, <2>1 DEF PollGuardsHaveRights, BatchBounded
    <2>6. QED BY <2>2, <2>3, <2>4, <2>5, InvFromParts
<1>2. CASE PollNow(p)
    <2>1. PICK s \in SubSeqs :
             LET r == Prepared(Rotated(s, seed'[p])) IN
             /\ FreshCall(p, s)
             /\ batch' = [batch EXCEPT ![p] = [subs |-> s, guards |-> r.guards,
                                               clocks |-> r.clocks, start |-> now]]
             /\ ProcessEvents(p, ReadyOf(r.guards))
             /\ UNCHANGED <<status, runner, syscall, rewinding, deadline,
                            window, sigs, code, cause, now>>
             /\ UNCHANGED ready
        BY <1>2 DEF PollNow
    <2> DEFINE r == Prepared(Rotated(s, seed'[p]))
    <2>2. /\ seed' \in [Procs -> 0..2 * MaxCalls]
          /\ calls' \in [Procs -> 0..MaxCalls]
          /\ SeedBound'
        BY <2>1, FreshSeed
    <2>3. /\ batch' \in [Procs -> BatchRecs]
          /\ PollGuardsHaveRights'
          /\ BatchBounded'
        BY <2>1, FreshBatch
    <2>4. ReadyOf(r.guards) \in Seq(Event) /\ Len(ReadyOf(r.guards)) \in 0..MaxSubs
        BY <2>1, FreshCallFacts
    <2>5. /\ evts' = [evts EXCEPT ![p] = ReadyOf(r.guards)]
          /\ nevents' = [nevents EXCEPT ![p] = Len(ReadyOf(r.guards))]
        BY <2>1 DEF ProcessEvents
    <2>6. SchedTypeOK'
        BY <1>0, <2>1, <2>2 DEF SchedTypeOK
    <2>7. PollVarsOK'
        BY <1>0, <2>1, <2>2, <2>3, <2>4, <2>5 DEF PollVarsOK
    <2>8. QED BY <2>2, <2>3, <2>6, <2>7, InvFromParts
<1>3. CASE PollBlock(p)
    <2>1. PICK s \in SubSeqs :
             LET r == Prepared(Rotated(s, seed'[p])) IN
             /\ FreshCall(p, s)
             /\ r.tts /= 0
             /\ batch' = [batch EXCEPT ![p] = [subs |-> s, guards |-> r.guards,
                                               clocks |-> r.clocks, start |-> now]]
             /\ nevents' = [nevents EXCEPT ![p] = 0]
             /\ evts' = [evts EXCEPT ![p] = NoEvents]
             /\ BlockIn(p, "poll", r.tts)
             /\ UNCHANGED <<runner, rewinding, sigs, code, cause, now>>
             /\ UNCHANGED ready
        BY <1>3 DEF PollBlock
    <2> DEFINE r == Prepared(Rotated(s, seed'[p]))
    <2>2. /\ status' = [status EXCEPT ![p] = "blocked"]
          /\ syscall' = [syscall EXCEPT ![p] = "poll"]
          /\ deadline' = [deadline EXCEPT ![p] = IF r.tts = Infinity THEN Infinity
                                                                  ELSE now + r.tts]
          /\ window' = [window EXCEPT ![p] = now + PollInterval]
        BY <2>1 DEF BlockIn
    <2>3. /\ seed' \in [Procs -> 0..2 * MaxCalls]
          /\ calls' \in [Procs -> 0..MaxCalls]
          /\ SeedBound'
        BY <2>1, <2>2, <1>0, FreshSeed DEF SchedTypeOK
    <2>4. /\ batch' \in [Procs -> BatchRecs]
          /\ PollGuardsHaveRights'
          /\ BatchBounded'
        BY <2>1, FreshBatch
    <2>5. r.tts = Infinity \/ (r.tts \in Nat /\ now + r.tts <= MaxTime)
        BY <2>1, FreshCallFacts
    <2>6. (IF r.tts = Infinity THEN Infinity ELSE now + r.tts) \in Time
        BY <2>5, <1>0 DEF SchedTypeOK, Time, Infinity
    <2>7. now + PollInterval \in Nat
        BY <1>0 DEF SchedTypeOK
    <2>8. SchedTypeOK'
        BY <1>0, <2>1, <2>2, <2>3, <2>6, <2>7 DEF SchedTypeOK, Status, Syscalls
    <2>9. PollVarsOK'
        <3>1. NoEvents \in Seq(Event)
            BY DEF NoEvents
        <3>2. evts' \in [Procs -> Seq(Event)] /\ nevents' \in [Procs -> 0..MaxSubs]
            BY <1>0, <2>1, <3>1 DEF PollVarsOK
        <3>3. QED BY <1>0, <2>1, <2>3, <2>4, <3>2 DEF PollVarsOK
    <2>10. QED BY <2>3, <2>4, <2>8, <2>9, InvFromParts
<1>4. QED BY <1>1, <1>2, <1>3

(* process_events with the events of the stored batch keeps the poll's     *)
(* variables typed.                                                        *)
LEMMA ProcessBatchEvents ==
    ASSUME PollInv, NEW p \in Procs,
           NEW es \in {ReadyEvents(p), ClockEvents(p)},
           ProcessEvents(p, es), UNCHANGED <<seed, batch, ready>>
    PROVE  PollVarsOK' /\ PollGuardsHaveRights' /\ BatchBounded'
<1>1. es \in Seq(Event) /\ Len(es) \in 0..MaxSubs
    BY BatchEvents
<1>2. PollVarsOK /\ PollGuardsHaveRights /\ BatchBounded
    BY InvParts
<1>3. evts' = [evts EXCEPT ![p] = es] /\ nevents' = [nevents EXCEPT ![p] = Len(es)]
    BY DEF ProcessEvents
<1>4. PollVarsOK'
    BY <1>1, <1>2, <1>3 DEF PollVarsOK
<1>5. QED BY <1>2, <1>4 DEF PollGuardsHaveRights, BatchBounded

(* The wait ends with the batch's events: inside the window the call       *)
(* returns, after a deep sleep the respawn rewinds into it.                *)
LEMMA PollEventsStep ==
    ASSUME PollInv, NEW p \in Procs,
           \/ PollReadyInWindow(p) \/ PollTimeoutInWindow(p)
           \/ PollWakeReady(p) \/ PollWakeTimeout(p)
    PROVE  PollInv'
<1>0. SchedTypeOK /\ SeedBound
    BY InvParts
<1>1. PollVarsOK' /\ PollGuardsHaveRights' /\ BatchBounded'
    <2>1. \E es \in {ReadyEvents(p), ClockEvents(p)} :
             ProcessEvents(p, es) /\ UNCHANGED <<seed, batch, ready>>
        BY DEF PollReadyInWindow, PollTimeoutInWindow, PollWakeReady,
               PollWakeTimeout
    <2>2. QED BY <2>1, ProcessBatchEvents
<1>2. CASE PollReadyInWindow(p) \/ PollTimeoutInWindow(p)
    <2>1. /\ syscall[p] = "poll"
          /\ status' = [status EXCEPT ![p] = "running"]
          /\ syscall' = [syscall EXCEPT ![p] = "none"]
          /\ deadline' = [deadline EXCEPT ![p] = Infinity]
          /\ UNCHANGED <<runner, rewinding, window, sigs, code, cause, now,
                         calls, seed>>
        BY <1>2 DEF PollReadyInWindow, PollTimeoutInWindow, ReturnFromBlock
    <2>2. SchedTypeOK'
        BY <1>0, <2>1 DEF SchedTypeOK, Status, Syscalls, Time, Infinity
    <2>3. SeedBound'
        <3> SUFFICES ASSUME NEW q \in Procs
                     PROVE  seed'[q] + (IF syscall'[q] = "poll" THEN 1 ELSE 0)
                                <= 2 * calls'[q]
            BY DEF SeedBound
        <3>1. seed[q] \in Nat /\ calls[q] \in Nat
            BY <1>0, PollInv, InvParts DEF SchedTypeOK, PollVarsOK
        <3>2. seed[q] + (IF syscall[q] = "poll" THEN 1 ELSE 0) <= 2 * calls[q]
            BY <1>0 DEF SeedBound
        <3>3. CASE q = p
            BY <3>3, <3>1, <3>2, <2>1, <1>0 DEF SchedTypeOK
        <3>4. CASE q /= p
            BY <3>4, <3>2, <2>1, <1>0 DEF SchedTypeOK
        <3>5. QED BY <3>3, <3>4
    <2>4. QED BY <1>1, <2>2, <2>3, InvFromParts
<1>3. CASE PollWakeReady(p) \/ PollWakeTimeout(p)
    <2>1. /\ status' = [status EXCEPT ![p] = "running"]
          /\ rewinding' = [rewinding EXCEPT ![p] = TRUE]
          /\ UNCHANGED <<runner, syscall, deadline, window, sigs, code, cause,
                         now, calls, seed>>
        BY <1>3 DEF PollWakeReady, PollWakeTimeout, Respawn
    <2>2. SchedTypeOK'
        BY <1>0, <2>1 DEF SchedTypeOK, Status
    <2>3. SeedBound'
        BY <1>0, <2>1 DEF SeedBound
    <2>4. QED BY <1>1, <2>2, <2>3, InvFromParts
<1>4. QED BY <1>2, <1>3

(* An fd becoming ready adds an open fd to the ready set and touches       *)
(* nothing else.                                                           *)
LEMMA FdReadyStep ==
    ASSUME PollInv, NEW fd \in OpenFds, FdReady(fd)
    PROVE  PollInv'
<1>1. SchedTypeOK /\ PollVarsOK /\ PollGuardsHaveRights /\ SeedBound
      /\ BatchBounded
    BY InvParts
<1>2. ready' = ready \cup {fd} /\ UNCHANGED <<schedVars, seed, nevents, evts, batch>>
    BY DEF FdReady
<1>3. SchedTypeOK' /\ SeedBound'
    BY <1>1, <1>2 DEF schedVars, SchedTypeOK, SeedBound
<1>4. PollVarsOK' /\ PollGuardsHaveRights' /\ BatchBounded'
    BY <1>1, <1>2 DEF PollVarsOK, PollGuardsHaveRights, BatchBounded
<1>5. QED BY <1>3, <1>4, InvFromParts

LEMMA PollInvInit == PollInit => PollInv
<1> SUFFICES ASSUME PollInit PROVE PollInv
    OBVIOUS
<1>1. SchedTypeOK
    BY DEF PollInit, Init, SchedTypeOK, Status, Syscalls, Codes, NoCode, Causes,
           Time, Infinity
<1>2. PollVarsOK
    <2>1. NoEvents \in Seq(Event) /\ NoBatch \in BatchRecs
        BY DEF NoEvents, NoBatch, BatchRecs
    <2>2. QED BY <2>1 DEF PollInit, PollVarsOK
<1>3. PollGuardsHaveRights /\ BatchBounded
    BY DEF PollInit, NoBatch, PollGuardsHaveRights, BatchBounded
<1>4. SeedBound
    <2>1. \A q \in Procs : seed[q] = 0 /\ syscall[q] = "none" /\ calls[q] = 0
        BY DEF PollInit, Init
    <2>2. QED BY <2>1 DEF SeedBound
<1>5. QED BY <1>1, <1>2, <1>3, <1>4 DEF PollInv, PollTypeOK, PollVarsOK,
                                        BatchRecs

LEMMA PollInvInductive == PollInv /\ [PollSpecNext]_vars => PollInv'
<1> SUFFICES ASSUME PollInv, [PollSpecNext]_vars PROVE PollInv'
    OBVIOUS
<1>1. CASE SchedNext /\ UNCHANGED pollVars
    BY <1>1, SchedInvStep
<1>2. CASE \E p \in Procs : PollNext(p)
    BY <1>2, PollQuietStep, PollFreshStep, PollEventsStep DEF PollNext
<1>3. CASE \E fd \in OpenFds : FdReady(fd)
    BY <1>3, FdReadyStep
<1>4. CASE UNCHANGED vars \/ (AllEnded /\ UNCHANGED vars)
    <2>1. UNCHANGED <<schedVars, pollVars>>
        BY <1>4 DEF vars
    <2>2. QED BY <2>1 DEF PollInv, PollTypeOK, SchedTypeOK, PollGuardsHaveRights,
                         SeedBound, BatchBounded, schedVars, pollVars
<1>5. QED BY <1>1, <1>2, <1>3, <1>4 DEF PollSpecNext

LEMMA PollInvHolds == PollSpec => []PollInv
BY PollInvInit, PollInvInductive, PTL DEF PollSpec

(* Type correctness of poll_oneoff: in every reachable state poll_seed     *)
(* stays within 0..2 * MaxCalls, nevents within 0..MaxSubs, the written     *)
(* events and the stored batch (guards, clock_subs, start) are well formed *)
(* and only open fds are ready, along with the scheduler's own variables.  *)
THEOREM PollTypeCorrect == PollSpec => []PollTypeOK
BY PollInvHolds, PTL DEF PollInv

(* Every guard poll_oneoff_internal stores in its batch is for stdout or   *)
(* stderr or for an fd that has the poll rights, in every reachable state, *)
(* whatever the subscriptions, the rotation by poll_seed and the errors on *)
(* the way.                                                                *)
THEOREM PollGuardsCorrect == PollSpec => []PollGuardsHaveRights
BY PollInvHolds, PTL DEF PollInv

-----------------------------------------------------------------------------
(* What PollBatch::poll reports of a list of guards after k of them.       *)
EventOf(gd) == [userdata |-> gd.userdata, type |-> gd.type]
ReadyUpTo(rs, es, k) ==
    /\ es \in Seq(Event)
    /\ (es = NoEvents <=> \A i \in 1..k : rs[i].fd \notin ready)
    /\ \A j \in DOMAIN es :
          \E i \in 1..k : rs[i].fd \in ready /\ es[j] = EventOf(rs[i])

(* One join of the loop keeps ReadyUpTo.                                   *)
LEMMA ReadyUpToStep ==
    ASSUME NEW rs \in Seq(Guard), NEW k \in Nat, k + 1 <= Len(rs),
           NEW es, ReadyUpTo(rs, es, k)
    PROVE  ReadyUpTo(rs, PollGuard(es, rs[k + 1]), k + 1)
<1>0. k + 1 \in 1..Len(rs)
    OBVIOUS
<1>1. rs[k + 1] \in Guard /\ EventOf(rs[k + 1]) \in Event
    <2>1. rs[k + 1] \in Guard
        BY <1>0
    <2>2. QED BY <2>1 DEF EventOf, Event, Guard
<1>2. es \in Seq(Event)
    BY DEF ReadyUpTo
<1>3. CASE rs[k + 1].fd \in ready
    <2> DEFINE es2 == Append(es, EventOf(rs[k + 1]))
    <2>1. PollGuard(es, rs[k + 1]) = es2
        BY <1>3 DEF PollGuard, EventOf
    <2>2. es2 \in Seq(Event) /\ es2 /= NoEvents
        BY <1>1, <1>2 DEF NoEvents
    <2>3. ~(\A i \in 1..(k + 1) : rs[i].fd \notin ready)
        BY <1>3
    <2>4. ASSUME NEW j \in DOMAIN es2
          PROVE  \E i \in 1..(k + 1) : rs[i].fd \in ready /\ es2[j] = EventOf(rs[i])
        <3>1. CASE j \in DOMAIN es
            <4>1. es2[j] = es[j]
                BY <3>1, <1>1, <1>2
            <4>2. \E i \in 1..k : rs[i].fd \in ready /\ es[j] = EventOf(rs[i])
                BY <3>1 DEF ReadyUpTo
            <4>3. QED BY <4>1, <4>2
        <3>2. CASE j \notin DOMAIN es
            <4>1. es2[j] = EventOf(rs[k + 1])
                BY <3>2, <1>1, <1>2
            <4>2. QED BY <4>1, <1>3
        <3>3. QED BY <3>1, <3>2
    <2>5. QED BY <2>1, <2>2, <2>3, <2>4 DEF ReadyUpTo
<1>4. CASE rs[k + 1].fd \notin ready
    <2>1. PollGuard(es, rs[k + 1]) = es
        BY <1>4 DEF PollGuard
    <2>2. (\A i \in 1..(k + 1) : rs[i].fd \notin ready)
            <=> (\A i \in 1..k : rs[i].fd \notin ready)
        BY <1>4
    <2>3. \A j \in DOMAIN es :
             \E i \in 1..(k + 1) : rs[i].fd \in ready /\ es[j] = EventOf(rs[i])
        BY DEF ReadyUpTo
    <2>4. QED BY <2>1, <2>2, <2>3, <1>2 DEF ReadyUpTo
<1>5. QED BY <1>3, <1>4

(* PollBatch::poll (poll_oneoff.rs:92-124) is pending, so that the wait    *)
(* goes on, exactly when no guard of the batch has a ready fd, and every   *)
(* event it returns is the userdata and type of a guard whose fd is ready: *)
(* the call never reports an event for an fd that is not ready.            *)
THEOREM ReadyOfSound ==
    ASSUME NEW rs \in Seq(Guard)
    PROVE  ReadyUpTo(rs, ReadyOf(rs), Len(rs))
<1> DEFINE f == ReadyF(rs)
           Ok(k) == ReadyUpTo(rs, f[k], k)
<1>1. \A i \in 0..Len(rs) : f[i] = ReadyD(f, rs, i)
    BY ReadyFoldExists, Zenon
<1>2. ReadyOf(rs) = f[Len(rs)]
    BY DEF ReadyOf, FoldSubs, ReadyF, ReadyD
<1>3. \A k \in Nat : k <= Len(rs) => Ok(k)
    <2>1. Ok(0)
        <3>1. f[0] = NoEvents
            BY <1>1 DEF ReadyD
        <3>2. QED BY <3>1 DEF NoEvents, ReadyUpTo
    <2>2. ASSUME NEW k \in Nat, k <= Len(rs) => Ok(k), k + 1 <= Len(rs)
          PROVE  Ok(k + 1)
        <3>1. f[k + 1] = PollGuard(f[k], rs[k + 1])
            BY <1>1, <2>2 DEF ReadyD
        <3>2. ReadyUpTo(rs, f[k], k)
            BY <2>2
        <3>3. QED BY <3>1, <3>2, <2>2, ReadyUpToStep
    <2> DEFINE T == {k \in Nat : k <= Len(rs) => Ok(k)}
    <2>3. 0 \in T /\ \A k \in Nat : k \in T => k + 1 \in T
        BY <2>1, <2>2 DEF T
    <2>4. Nat \subseteq T
        BY <2>3, SetInduction
    <2>5. QED BY <2>4 DEF T
<1>4. Ok(Len(rs))
    BY <1>3
<1>5. QED
    BY <1>2, <1>4, Zenon
====
