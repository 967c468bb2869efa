--------------------------- MODULE LocationsProofs ---------------------------
(***************************************************************************)
(* Proofs about Locations.tla, for any number of connections of the        *)
(* character, reports and failures.  The argument: flushMu makes the saves *)
(* of a connection follow one another, each of a version at least as new   *)
(* (FlushesAreInOrder); from clients to pending and out of it a connection *)
(* always has somebody who will flush it (LeaversAreFlushed); so a round   *)
(* of flushes that saw clients and pending owes nobody anything when it is *)
(* over (RoundsAreFresh).                                                  *)
(***************************************************************************)
EXTENDS Locations, TLAPS

-----------------------------------------------------------------------------
(* Types *)

LEMMA VersionFields ==
  ASSUME TypeOK, NEW c \in Clients
  PROVE  /\ version[c] \in Nat /\ version[c] <= MaxReports
         /\ written[c] \in Nat /\ written[c] <= MaxReports
         /\ saved.version \in Nat /\ saved.version <= MaxReports
         /\ saved.by \in Clients \cup {NoClient}
         /\ dirty[c] \in BOOLEAN
         /\ \A x \in {"sync", "exit"} : wanted[x][c] \in Nat
BY ConstantsAssumption DEF TypeOK

LEMMA FlushFields ==
  ASSUME TypeOK, NEW t \in flushing
  PROVE  /\ t = <<t[1], t[2], t[3]>> /\ t[1] \in Flushers /\ t[2] \in Clients
         /\ t[3] \in Nat /\ 0 < t[3] /\ t[3] <= MaxReports
BY ConstantsAssumption DEF TypeOK

\* Rounds are read from these variables alone.
LEMMA RoundsUnchanged ==
  ASSUME RoundsAreFresh,
         UNCHANGED <<version, flushing, written, wanted, connected, failed, late>>,
         \A x \in {"sync", "exit"} : todo[x] \subseteq todo'[x]
  PROVE  RoundsAreFresh'
BY DEF RoundsAreFresh, Owed

LEMMA ExitUnchanged ==
  ASSUME ExitLosesLeaversOnly, running' = running, running # "down"
  PROVE  ExitLosesLeaversOnly'
BY DEF ExitLosesLeaversOnly

-----------------------------------------------------------------------------
(* Connections and reports *)

LEMMA RegisterIInv ==
  ASSUME IInv, NEW c \in Clients, Register(c)
  PROVE  IInv'
<1> USE DEF Register
<1>1. TypeOK'
  BY DEF IInv, TypeOK
<1>2. FlushesAreInOrder'
  BY DEF IInv, FlushesAreInOrder
<1>3. LeaversAreFlushed'
  BY DEF IInv, LeaversAreFlushed
<1>4. RoundsAreFresh' /\ ExitLosesLeaversOnly'
  BY RoundsUnchanged, ExitUnchanged DEF IInv
<1> QED
  BY <1>1, <1>2, <1>3, <1>4 DEF IInv

LEMMA HandlePresenceIInv ==
  ASSUME IInv, NEW c \in Clients, NEW onFoot \in BOOLEAN, NEW roomChanged \in BOOLEAN,
         HandlePresence(c, onFoot, roomChanged)
  PROVE  IInv'
<1> USE DEF HandlePresence
<1>1. TypeOK'
  BY DEF IInv, TypeOK, Reports
<1>2. FlushesAreInOrder'
  BY DEF IInv, FlushesAreInOrder
<1>3. LeaversAreFlushed'
  BY DEF IInv, LeaversAreFlushed
<1>4. RoundsAreFresh' /\ ExitLosesLeaversOnly'
  BY RoundsUnchanged, ExitUnchanged DEF IInv
<1> QED
  BY <1>1, <1>2, <1>3, <1>4 DEF IInv

LEMMA MarkLocationIInv ==
  ASSUME IInv, NEW c \in Clients, MarkLocation(c)
  PROVE  IInv'
<1>1. /\ running # "down" /\ report' = [report EXCEPT ![c] = NoReport]
      /\ UNCHANGED <<clients, pending, used, flushing, saved, failures, failed,
                     running, ticking, connected, written, wanted>>
      /\ \/ UNCHANGED <<version, dirty, late>>
         \/ /\ version[c] < MaxReports
            /\ version' = [version EXCEPT ![c] = version[c] + 1]
            /\ dirty' = [dirty EXCEPT ![c] = TRUE]
            /\ late' = IF c \in clients THEN late ELSE late \cup {c}
      /\ \/ todo' = todo
         \/ todo' = [todo EXCEPT !["room"] = todo["room"] \cup {c}]
  BY DEF MarkLocation
<1>2. /\ todo' \in [Flushers -> SUBSET Clients]
      /\ \A x \in Flushers \ {"room"} : todo'[x] = todo[x]
      /\ version' \in [Clients -> 0 .. MaxReports]
      /\ dirty' \in [Clients -> BOOLEAN] /\ late' \subseteq Clients
      /\ late \subseteq late'
      /\ \A d \in Clients \ {c} : version'[d] = version[d] /\ dirty'[d] = dirty[d]
      /\ version[c] <= version'[c]
      /\ \/ version'[c] = version[c] /\ dirty'[c] = dirty[c]
         \/ 0 < version'[c] /\ dirty'[c] /\ (c \in clients \/ c \in late')
  <2>1. /\ todo' \in [Flushers -> SUBSET Clients]
        /\ \A x \in Flushers \ {"room"} : todo'[x] = todo[x]
    BY <1>1 DEF IInv, TypeOK
  <2>2. CASE UNCHANGED <<version, dirty, late>>
    BY <2>1, <2>2, VersionFields DEF IInv, TypeOK
  <2>3. CASE /\ version[c] < MaxReports
             /\ version' = [version EXCEPT ![c] = version[c] + 1]
             /\ dirty' = [dirty EXCEPT ![c] = TRUE]
             /\ late' = IF c \in clients THEN late ELSE late \cup {c}
    <3>1. version[c] + 1 \in 0 .. MaxReports /\ version[c] \in Nat
      BY <2>3, VersionFields, ConstantsAssumption DEF IInv
    <3>2. /\ version' \in [Clients -> 0 .. MaxReports]
          /\ dirty' \in [Clients -> BOOLEAN] /\ late' \subseteq Clients
      BY <2>3, <3>1 DEF IInv, TypeOK
    <3>3. /\ version'[c] = version[c] + 1 /\ dirty'[c]
          /\ \A d \in Clients \ {c} : version'[d] = version[d] /\ dirty'[d] = dirty[d]
      BY <2>3 DEF IInv, TypeOK
    <3>4. version[c] <= version'[c] /\ 0 < version'[c]
      BY <3>1, <3>3
    <3> QED
      BY <2>1, <2>3, <3>2, <3>3, <3>4
  <2> QED
    BY <1>1, <2>2, <2>3
<1>3. TypeOK'
  BY <1>1, <1>2 DEF IInv, TypeOK, NoReport, Reports
<1>4. \A d \in Clients : /\ version[d] \in Nat /\ written[d] \in Nat
                         /\ version'[d] \in Nat /\ version[d] <= version'[d]
                         /\ saved.version \in Nat
                         /\ dirty[d] => dirty'[d]
  BY <1>2, <1>3, VersionFields DEF IInv, TypeOK
<1>5. FlushesAreInOrder'
  <2>1. \A t, u \in flushing' : t[2] = u[2] => t = u
    BY <1>1 DEF IInv, FlushesAreInOrder
  <2>2. ASSUME NEW t \in flushing'
        PROVE  /\ dirty'[t[2]] /\ written'[t[2]] <= t[3] /\ t[3] <= version'[t[2]]
               /\ saved'.by = t[2] => saved'.version <= t[3]
    BY <2>2, <1>1, <1>4, FlushFields DEF IInv, FlushesAreInOrder
  <2>3. ASSUME NEW d \in Clients
        PROVE  /\ saved'.by = d => saved'.version <= version'[d]
               /\ IF dirty'[d] THEN 0 < version'[d] /\ written'[d] <= version'[d]
                               ELSE written'[d] = version'[d]
    <3>1. CASE version'[d] = version[d] /\ dirty'[d] = dirty[d]
      BY <3>1, <1>1 DEF IInv, FlushesAreInOrder
    <3>2. CASE 0 < version'[d] /\ dirty'[d]
      <4>1. /\ saved.by = d => saved.version <= version[d]
            /\ written[d] <= version[d]
        BY <1>4 DEF IInv, FlushesAreInOrder
      <4> QED
        BY <3>2, <4>1, <1>1, <1>4
    <3> QED
      BY <3>1, <3>2, <1>2
  <2> QED
    BY <2>1, <2>2, <2>3 DEF FlushesAreInOrder
<1>6. LeaversAreFlushed'
  <2>1. ASSUME NEW d \in Clients, d \notin late', dirty'[d]
        PROVE  \/ d \in clients
               \/ d \in pending /\ d \in todo["unregister"]
               \/ d \in pending /\ <<"unregister", d, version'[d]>> \in flushing
    <3>1. d \in clients \/ (version'[d] = version[d] /\ dirty[d] /\ d \notin late)
      BY <2>1, <1>2
    <3> QED
      BY <3>1 DEF IInv, LeaversAreFlushed
  <2>2. todo'["unregister"] = todo["unregister"]
    BY <1>2 DEF Flushers
  <2> QED
    BY <2>1, <2>2, <1>1 DEF IInv, LeaversAreFlushed
<1>7. RoundsAreFresh'
  <2> SUFFICES ASSUME NEW x \in {"sync", "exit"}
               PROVE  /\ \A d \in Clients : wanted'[x][d] <= version'[d]
                      /\ x \notin failed' => \A d \in Owed(x)' :
                           \/ wanted'[x][d] <= written'[d]
                           \/ d \in todo'[x]
                           \/ \E v \in wanted'[x][d] .. version'[d] :
                                <<x, d, v>> \in flushing'
    BY DEF RoundsAreFresh
  <2>1. \A d \in Clients : wanted'[x][d] <= version'[d]
    BY <1>1, <1>4, VersionFields DEF IInv, RoundsAreFresh
  <2>2. ASSUME x \notin failed, NEW d \in Owed(x)'
        PROVE  \/ wanted[x][d] <= written[d]
               \/ d \in todo[x]
               \/ \E v \in wanted[x][d] .. version'[d] : <<x, d, v>> \in flushing
    <3>1. d \in Owed(x) /\ d \in Clients
      BY <1>1, <1>2 DEF Owed, IInv, TypeOK
    <3>2. CASE \E v \in wanted[x][d] .. version[d] : <<x, d, v>> \in flushing
      BY <3>1, <3>2, <1>4, VersionFields DEF IInv
    <3> QED
      BY <2>2, <3>1, <3>2 DEF IInv, RoundsAreFresh
  <2>3. todo'[x] = todo[x]
    BY <1>2 DEF Flushers
  <2> QED
    BY <2>1, <2>2, <2>3, <1>1
<1>8. ExitLosesLeaversOnly'
  BY <1>1, ExitUnchanged DEF IInv
<1> QED
  BY <1>3, <1>5, <1>6, <1>7, <1>8 DEF IInv

LEMMA UnregisterIInv ==
  ASSUME IInv, NEW c \in Clients, Unregister(c)
  PROVE  IInv'
<1>1. /\ running # "down" /\ c \in clients
      /\ clients' = clients \ {c} /\ pending' = pending \cup {c}
      /\ todo' = [todo EXCEPT !["unregister"] = todo["unregister"] \cup {c}]
      /\ UNCHANGED <<used, report, version, dirty, flushing, saved, failures,
                     failed, running, ticking, connected, written, wanted, late>>
  BY DEF Unregister, PendingAfter
<1>2. /\ todo' \in [Flushers -> SUBSET Clients]
      /\ todo'["unregister"] = todo["unregister"] \cup {c}
      /\ \A x \in {"sync", "exit"} : todo'[x] = todo[x]
  BY <1>1 DEF IInv, TypeOK, Flushers
<1>3. TypeOK'
  BY <1>1, <1>2 DEF IInv, TypeOK
<1>4. FlushesAreInOrder'
  BY <1>1 DEF IInv, FlushesAreInOrder
<1>5. LeaversAreFlushed'
  BY <1>1, <1>2 DEF IInv, LeaversAreFlushed
<1>6. RoundsAreFresh' /\ ExitLosesLeaversOnly'
  BY <1>1, <1>2, RoundsUnchanged, ExitUnchanged DEF IInv
<1> QED
  BY <1>3, <1>4, <1>5, <1>6 DEF IInv

\* The flush of Unregister is over, so it has saved the last location, or failed.
LEMMA UnregisterEndsIInv ==
  ASSUME IInv, NEW c \in Clients, UnregisterEnds(c)
  PROVE  IInv'
<1> USE DEF UnregisterEnds
<1>1. TypeOK'
  BY DEF IInv, TypeOK
<1>2. FlushesAreInOrder'
  BY DEF IInv, FlushesAreInOrder
<1>3. LeaversAreFlushed'
  <2>1. c \notin todo["unregister"]
        /\ <<"unregister", c, version[c]>> \notin flushing
    BY DEF UnregisterFlushed
  <2> QED
    BY <2>1 DEF IInv, LeaversAreFlushed
<1>4. RoundsAreFresh' /\ ExitLosesLeaversOnly'
  BY RoundsUnchanged, ExitUnchanged DEF IInv
<1> QED
  BY <1>1, <1>2, <1>3, <1>4 DEF IInv

-----------------------------------------------------------------------------
(* flushLocation *)

\* A clean connection is saved already.
LEMMA SkipFlushIInv ==
  ASSUME IInv, NEW x \in Flushers, NEW c \in Clients, SkipFlush(x, c)
  PROVE  IInv'
<1>1. /\ running # "down" /\ ~dirty[c] /\ c \in todo[x]
      /\ todo' = [todo EXCEPT ![x] = todo[x] \ {c}]
      /\ UNCHANGED <<clients, pending, used, report, version, dirty, flushing,
                     saved, failures, failed, running, ticking, connected, written,
                     wanted, late>>
  BY DEF SkipFlush, NeedsFlush
<1>2. /\ todo' \in [Flushers -> SUBSET Clients]
      /\ \A y \in Flushers, d \in Clients :
           d \in todo[y] => d \in todo'[y] \/ (y = x /\ d = c)
  BY <1>1 DEF IInv, TypeOK
<1>3. TypeOK'
  BY <1>1, <1>2 DEF IInv, TypeOK
<1>4. FlushesAreInOrder'
  BY <1>1 DEF IInv, FlushesAreInOrder
<1>5. LeaversAreFlushed'
  BY <1>1, <1>2 DEF IInv, LeaversAreFlushed, Flushers
<1>6. RoundsAreFresh'
  <2>1. \A y \in {"sync", "exit"} : wanted[y][c] <= written[c]
    BY <1>1 DEF IInv, RoundsAreFresh, FlushesAreInOrder
  <2>2. ASSUME NEW y \in {"sync", "exit"}, y \notin failed, NEW d \in Owed(y)
        PROVE  \/ wanted[y][d] <= written[d]
               \/ d \in todo'[y]
               \/ \E v \in wanted[y][d] .. version[d] : <<y, d, v>> \in flushing
    <3>1. d \in Clients /\ y \in Flushers
      BY DEF Owed, IInv, TypeOK, Flushers
    <3>2. \/ wanted[y][d] <= written[d]
          \/ d \in todo[y]
          \/ \E v \in wanted[y][d] .. version[d] : <<y, d, v>> \in flushing
      BY <2>2 DEF IInv, RoundsAreFresh
    <3> QED
      BY <2>1, <3>1, <3>2, <1>2
  <2> QED
    BY <2>2, <1>1 DEF IInv, RoundsAreFresh, Owed
<1>7. ExitLosesLeaversOnly'
  BY <1>1, ExitUnchanged DEF IInv
<1> QED
  BY <1>3, <1>4, <1>5, <1>6, <1>7 DEF IInv

LEMMA BeginFlushIInv ==
  ASSUME IInv, NEW x \in Flushers, NEW c \in Clients, BeginFlush(x, c)
  PROVE  IInv'
<1> DEFINE n == version[c]
           new == <<x, c, n>>
<1>1. /\ running # "down" /\ dirty[c] /\ \A t \in flushing : t[2] # c
      /\ todo' = [todo EXCEPT ![x] = todo[x] \ {c}]
      /\ flushing' = flushing \cup {new}
      /\ UNCHANGED <<clients, pending, used, report, version, dirty, saved,
                     failures, failed, running, ticking, connected, written,
                     wanted, late>>
  BY DEF BeginFlush, NeedsFlush, FlushMuFree
<1>2. /\ todo' \in [Flushers -> SUBSET Clients]
      /\ \A y \in Flushers, d \in Clients :
           d \in todo[y] => d \in todo'[y] \/ (y = x /\ d = c)
  BY <1>1 DEF IInv, TypeOK
<1>3. /\ n \in 1 .. MaxReports /\ 0 < n /\ written[c] <= n
      /\ saved.by = c => saved.version <= n
  BY <1>1, VersionFields, ConstantsAssumption DEF IInv, FlushesAreInOrder
<1>4. new[1] = x /\ new[2] = c /\ new[3] = n /\ new \in Flushers \X Clients \X (1 .. MaxReports)
  BY <1>3
<1>5. n = version[c]
  OBVIOUS
<1>6. TypeOK'
  BY <1>1, <1>2, <1>4 DEF IInv, TypeOK
<1> HIDE DEF new, n
<1>7. FlushesAreInOrder'
  <2>1. \A t, u \in flushing' : t[2] = u[2] => t = u
    BY <1>1, <1>4 DEF IInv, FlushesAreInOrder
  <2>2. ASSUME NEW t \in flushing'
        PROVE  /\ dirty[t[2]] /\ written[t[2]] <= t[3] /\ t[3] <= version[t[2]]
               /\ saved.by = t[2] => saved.version <= t[3]
    <3>1. CASE t \in flushing
      BY <3>1 DEF IInv, FlushesAreInOrder
    <3>2. CASE t = new
      BY <3>2, <1>1, <1>3, <1>4, <1>5
    <3> QED
      BY <3>1, <3>2, <1>1
  <2> QED
    BY <2>1, <2>2, <1>1 DEF IInv, FlushesAreInOrder
<1>8. LeaversAreFlushed'
  <2>1. ASSUME NEW d \in Clients, d \in todo["unregister"]
        PROVE  d \in todo'["unregister"] \/ <<"unregister", d, version[d]>> \in flushing'
    <3>1. CASE d = c /\ x = "unregister"
      BY <3>1, <1>1, <1>5 DEF new
    <3>2. CASE ~(d = c /\ x = "unregister")
      BY <3>2, <2>1, <1>2 DEF Flushers
    <3> QED
      BY <3>1, <3>2
  <2> QED
    BY <2>1, <1>1 DEF IInv, LeaversAreFlushed
<1>9. RoundsAreFresh'
  <2>1. ASSUME NEW y \in {"sync", "exit"}, y \notin failed, NEW d \in Owed(y)
        PROVE  \/ wanted[y][d] <= written[d]
               \/ d \in todo'[y]
               \/ \E v \in wanted[y][d] .. version[d] : <<y, d, v>> \in flushing'
    <3>1. d \in Clients /\ y \in Flushers
      BY DEF Owed, IInv, TypeOK, Flushers
    <3>2. \/ wanted[y][d] <= written[d]
          \/ d \in todo[y]
          \/ \E v \in wanted[y][d] .. version[d] : <<y, d, v>> \in flushing
      BY <2>1 DEF IInv, RoundsAreFresh
    <3>3. CASE d = c /\ y = x
      <4>1. wanted[y][d] <= version[d]
        BY <3>1 DEF IInv, RoundsAreFresh
      <4>2. version[d] \in wanted[y][d] .. version[d]
        BY <4>1, <3>1, VersionFields DEF IInv
      <4> QED
        BY <3>3, <4>2, <1>1, <1>5 DEF new
    <3>4. CASE ~(d = c /\ y = x)
      BY <3>1, <3>2, <3>4, <1>1, <1>2
    <3> QED
      BY <3>3, <3>4
  <2> QED
    BY <2>1, <1>1 DEF IInv, RoundsAreFresh, Owed
<1>10. ExitLosesLeaversOnly'
  BY <1>1, ExitUnchanged DEF IInv
<1> QED
  BY <1>6, <1>7, <1>8, <1>9, <1>10 DEF IInv

LEMMA FlushSavesIInv ==
  ASSUME IInv, NEW x, NEW c, NEW n, FlushSaves(x, c, n)
  PROVE  /\ IInv'
         /\ saved'.by = c /\ saved'.version = n /\ written[c] <= n /\ n \in Nat
         /\ saved.by = c => saved.version <= n
<1> DEFINE old == <<x, c, n>>
<1>1. /\ running # "down" /\ old \in flushing
      /\ flushing' = flushing \ {old}
      /\ saved' = [by |-> c, version |-> n]
      /\ written' = [written EXCEPT ![c] = n]
      /\ dirty' = [dirty EXCEPT ![c] = dirty[c] /\ version[c] # n]
      /\ UNCHANGED <<clients, pending, used, report, version, todo, failures,
                     failed, running, ticking, connected, wanted, late>>
  BY DEF FlushSaves, StillDirty
<1>2. old[1] = x /\ old[2] = c /\ old[3] = n
  OBVIOUS
<1>3. x \in Flushers /\ c \in Clients /\ n \in 1 .. MaxReports /\ n \in Nat
  BY <1>1, <1>2, ConstantsAssumption DEF IInv, TypeOK
<1>4. /\ dirty[c] /\ written[c] <= n /\ n <= version[c]
      /\ saved.by = c => saved.version <= n
      /\ \A t \in flushing \ {old} : t[2] # c
  BY <1>1, <1>2 DEF IInv, FlushesAreInOrder
<1>5. /\ written' \in [Clients -> 0 .. MaxReports] /\ written'[c] = n
      /\ dirty' \in [Clients -> BOOLEAN]
      /\ dirty'[c] <=> version[c] # n
      /\ \A d \in Clients \ {c} : written'[d] = written[d] /\ dirty'[d] = dirty[d]
      /\ saved' \in [by : Clients \cup {NoClient}, version : 0 .. MaxReports]
      /\ saved'.by = c /\ saved'.version = n
  <2>1. n \in 0 .. MaxReports
    BY <1>3, ConstantsAssumption
  <2> QED
    BY <2>1, <1>1, <1>3, <1>4 DEF IInv, TypeOK
<1> HIDE DEF old
<1>6. TypeOK'
  BY <1>1, <1>5 DEF IInv, TypeOK
<1>7. \A d \in Clients : /\ written[d] \in Nat /\ written'[d] \in Nat
                         /\ version[d] \in Nat /\ written[d] <= written'[d]
  BY <1>3, <1>4, <1>5, VersionFields DEF IInv
<1>8. FlushesAreInOrder'
  <2>1. \A t, u \in flushing' : t[2] = u[2] => t = u
    BY <1>1 DEF IInv, FlushesAreInOrder
  <2>2. ASSUME NEW t \in flushing'
        PROVE  /\ dirty'[t[2]] /\ written'[t[2]] <= t[3] /\ t[3] <= version[t[2]]
               /\ saved'.by = t[2] => saved'.version <= t[3]
    <3>1. t \in flushing /\ t[2] \in Clients \ {c}
      BY <1>1, <1>4, FlushFields DEF IInv
    <3> QED
      BY <3>1, <1>5 DEF IInv, FlushesAreInOrder
  <2>3. ASSUME NEW d \in Clients
        PROVE  /\ saved'.by = d => saved'.version <= version[d]
               /\ IF dirty'[d] THEN 0 < version[d] /\ written'[d] <= version[d]
                               ELSE written'[d] = version[d]
    <3>1. CASE d = c
      BY <3>1, <1>3, <1>4, <1>5, <1>7
    <3>2. CASE d # c
      BY <3>2, <1>5 DEF IInv, FlushesAreInOrder
    <3> QED
      BY <3>1, <3>2
  <2> QED
    BY <2>1, <2>2, <2>3, <1>1 DEF FlushesAreInOrder
<1>9. LeaversAreFlushed'
  <2>1. ASSUME NEW d \in Clients, d \notin late, dirty'[d]
        PROVE  \/ d \in clients
               \/ d \in pending /\ d \in todo["unregister"]
               \/ d \in pending /\ <<"unregister", d, version[d]>> \in flushing'
    <3>1. dirty[d] /\ <<"unregister", d, version[d]>> # old
      BY <2>1, <1>4, <1>5 DEF old
    <3> QED
      BY <2>1, <3>1, <1>1 DEF IInv, LeaversAreFlushed
  <2> QED
    BY <2>1, <1>1 DEF IInv, LeaversAreFlushed
<1>10. RoundsAreFresh'
  <2>1. ASSUME NEW y \in {"sync", "exit"}, y \notin failed, NEW d \in Owed(y)
        PROVE  \/ wanted[y][d] <= written'[d]
               \/ d \in todo[y]
               \/ \E v \in wanted[y][d] .. version[d] : <<y, d, v>> \in flushing'
    <3>1. d \in Clients /\ wanted[y][d] \in Nat
      BY VersionFields DEF Owed, IInv, TypeOK
    <3>2. \/ wanted[y][d] <= written[d]
          \/ d \in todo[y]
          \/ \E v \in wanted[y][d] .. version[d] : <<y, d, v>> \in flushing
      BY <2>1 DEF IInv, RoundsAreFresh
    <3>3. CASE \E v \in wanted[y][d] .. version[d] : <<y, d, v>> \in flushing
      <4>1. PICK v \in wanted[y][d] .. version[d] : <<y, d, v>> \in flushing
        BY <3>3
      <4>2. CASE <<y, d, v>> = old
        BY <4>1, <4>2, <1>5, <3>1 DEF old
      <4>3. CASE <<y, d, v>> # old
        BY <4>1, <4>3, <1>1
      <4> QED
        BY <4>2, <4>3
    <3> QED
      BY <3>1, <3>2, <3>3, <1>7
  <2> QED
    BY <2>1, <1>1 DEF IInv, RoundsAreFresh, Owed
<1>11. ExitLosesLeaversOnly'
  BY <1>1, ExitUnchanged DEF IInv
<1> QED
  BY <1>3, <1>4, <1>5, <1>6, <1>8, <1>9, <1>10, <1>11 DEF IInv

LEMMA FlushFailsIInv ==
  ASSUME IInv, NEW x, NEW c, NEW n, NEW wrote \in BOOLEAN, FlushFails(x, c, n, wrote)
  PROVE  /\ IInv'
         /\ \/ saved' = saved
            \/ /\ saved'.by = c /\ saved'.version = n /\ written[c] <= n
               /\ n \in Nat
               /\ saved.by = c => saved.version <= n
<1> DEFINE old == <<x, c, n>>
<1>1. /\ running # "down" /\ old \in flushing
      /\ failures < MaxFailures /\ failures' = failures + 1
      /\ flushing' = flushing \ {old}
      /\ saved' = IF wrote THEN [by |-> c, version |-> n] ELSE saved
      /\ failed' = failed \cup {x}
      /\ late' = IF x = "unregister" THEN late \cup {c} ELSE late
      /\ UNCHANGED <<clients, pending, used, report, version, dirty, todo, running,
                     ticking, connected, written, wanted>>
  BY DEF FlushFails
<1>2. old[1] = x /\ old[2] = c /\ old[3] = n
  OBVIOUS
<1>3. x \in Flushers /\ c \in Clients /\ n \in 1 .. MaxReports /\ n \in Nat
  BY <1>1, <1>2, ConstantsAssumption DEF IInv, TypeOK
<1>4. /\ dirty[c] /\ written[c] <= n /\ n <= version[c]
      /\ saved.by = c => saved.version <= n
      /\ \A t \in flushing \ {old} : t[2] # c
  BY <1>1, <1>2 DEF IInv, FlushesAreInOrder
<1>5. /\ saved' \in [by : Clients \cup {NoClient}, version : 0 .. MaxReports]
      /\ saved' = saved \/ (saved'.by = c /\ saved'.version = n)
  <2>1. n \in 0 .. MaxReports
    BY <1>3, ConstantsAssumption
  <2> QED
    BY <2>1, <1>1, <1>3 DEF IInv, TypeOK
<1> HIDE DEF old
<1>6. TypeOK'
  <2>1. failures' \in 0 .. MaxFailures
    BY <1>1, ConstantsAssumption DEF IInv, TypeOK
  <2> QED
    BY <2>1, <1>1, <1>3, <1>5 DEF IInv, TypeOK
<1>7. FlushesAreInOrder'
  <2>1. \A t, u \in flushing' : t[2] = u[2] => t = u
    BY <1>1 DEF IInv, FlushesAreInOrder
  <2>2. ASSUME NEW t \in flushing'
        PROVE  /\ dirty[t[2]] /\ written[t[2]] <= t[3] /\ t[3] <= version[t[2]]
               /\ saved'.by = t[2] => saved'.version <= t[3]
    <3>1. t \in flushing /\ t[2] \in Clients \ {c}
      BY <1>1, <1>4, FlushFields DEF IInv
    <3> QED
      BY <3>1, <1>5 DEF IInv, FlushesAreInOrder
  <2>3. ASSUME NEW d \in Clients
        PROVE  saved'.by = d => saved'.version <= version[d]
    BY <1>4, <1>5 DEF IInv, FlushesAreInOrder
  <2> QED
    BY <2>1, <2>2, <2>3, <1>1 DEF IInv, FlushesAreInOrder
<1>8. LeaversAreFlushed'
  <2>1. ASSUME NEW d \in Clients, d \notin late', dirty[d]
        PROVE  \/ d \in clients
               \/ d \in pending /\ d \in todo["unregister"]
               \/ d \in pending /\ <<"unregister", d, version[d]>> \in flushing'
    <3>1. d \notin late /\ <<"unregister", d, version[d]>> # old
      BY <2>1, <1>1 DEF old
    <3> QED
      BY <2>1, <3>1, <1>1 DEF IInv, LeaversAreFlushed
  <2> QED
    BY <2>1, <1>1 DEF IInv, LeaversAreFlushed
<1>9. RoundsAreFresh'
  <2>1. ASSUME NEW y \in {"sync", "exit"}, y \notin failed', NEW d \in Owed(y)'
        PROVE  \/ wanted[y][d] <= written[d]
               \/ d \in todo[y]
               \/ \E v \in wanted[y][d] .. version[d] : <<y, d, v>> \in flushing'
    <3>1. d \in Owed(y) /\ y \notin failed /\ y # x
      BY <2>1, <1>1 DEF Owed
    <3>2. \/ wanted[y][d] <= written[d]
          \/ d \in todo[y]
          \/ \E v \in wanted[y][d] .. version[d] : <<y, d, v>> \in flushing
      BY <3>1 DEF IInv, RoundsAreFresh
    <3> QED
      BY <3>1, <3>2, <1>1 DEF old
  <2> QED
    BY <2>1, <1>1 DEF IInv, RoundsAreFresh
<1>10. ExitLosesLeaversOnly'
  BY <1>1, ExitUnchanged DEF IInv
<1> QED
  BY <1>3, <1>4, <1>5, <1>6, <1>7, <1>8, <1>9, <1>10 DEF IInv

-----------------------------------------------------------------------------
(* Who flushes what *)

LEMMA TickerFlushIInv ==
  ASSUME IInv, TickerFlush
  PROVE  IInv'
<1>1. /\ running # "down"
      /\ todo' = [todo EXCEPT !["ticker"] = clients]
      /\ ticking' \in BOOLEAN
      /\ UNCHANGED <<clients, pending, used, report, version, dirty, flushing,
                     saved, failures, failed, running, connected, written, wanted,
                     late>>
  BY DEF TickerFlush, ToFlush
<1>2. /\ todo' \in [Flushers -> SUBSET Clients]
      /\ \A x \in {"sync", "exit", "unregister"} : todo'[x] = todo[x]
  BY <1>1 DEF IInv, TypeOK, Flushers
<1>3. TypeOK'
  BY <1>1, <1>2 DEF IInv, TypeOK
<1>4. FlushesAreInOrder'
  BY <1>1 DEF IInv, FlushesAreInOrder
<1>5. LeaversAreFlushed'
  BY <1>1, <1>2 DEF IInv, LeaversAreFlushed
<1>6. RoundsAreFresh' /\ ExitLosesLeaversOnly'
  BY <1>1, <1>2, RoundsUnchanged, ExitUnchanged DEF IInv
<1> QED
  BY <1>3, <1>4, <1>5, <1>6 DEF IInv

\* Who is neither connected nor being unregistered has nothing left to save.
LEMMA SyncIInv ==
  ASSUME IInv, SyncAccountLocations
  PROVE  IInv'
<1>1. /\ running = "up"
      /\ todo' = [todo EXCEPT !["sync"] = clients \cup pending]
      /\ failed' = failed \ {"sync"}
      /\ wanted' = [wanted EXCEPT !["sync"] = version]
      /\ UNCHANGED <<clients, pending, used, report, version, dirty, flushing,
                     saved, failures, running, ticking, connected, written, late>>
  BY DEF SyncAccountLocations, ToSync
<1>2. /\ todo' \in [Flushers -> SUBSET Clients]
      /\ todo'["sync"] = clients \cup pending
      /\ \A x \in {"exit", "unregister"} : todo'[x] = todo[x]
      /\ wanted' \in [{"sync", "exit"} -> [Clients -> 0 .. MaxReports]]
      /\ wanted'["sync"] = version /\ wanted'["exit"] = wanted["exit"]
  BY <1>1 DEF IInv, TypeOK, Flushers
<1>3. TypeOK'
  BY <1>1, <1>2 DEF IInv, TypeOK
<1>4. FlushesAreInOrder'
  BY <1>1 DEF IInv, FlushesAreInOrder
<1>5. LeaversAreFlushed'
  BY <1>1, <1>2 DEF IInv, LeaversAreFlushed
<1>6. \A c \in Clients \ late : version[c] <= written[c] \/ c \in todo'["sync"]
  <2> SUFFICES ASSUME NEW c \in Clients \ late, c \notin clients \cup pending
               PROVE  version[c] <= written[c]
    BY <1>2
  <2>1. ~dirty[c]
    BY DEF IInv, LeaversAreFlushed
  <2>2. written[c] = version[c]
    BY <2>1 DEF IInv, FlushesAreInOrder
  <2> QED
    BY <2>2, VersionFields DEF IInv
<1>7. \A c \in Clients : version[c] <= version[c]
  BY VersionFields DEF IInv
<1>8. RoundsAreFresh'
  <2>1. /\ \A c \in Clients : wanted'["sync"][c] <= version'[c]
        /\ \A c \in Owed("sync")' : \/ wanted'["sync"][c] <= written'[c]
                                    \/ c \in todo'["sync"]
    BY <1>1, <1>2, <1>6, <1>7 DEF Owed
  <2>2. /\ \A c \in Clients : wanted'["exit"][c] <= version'[c]
        /\ "exit" \notin failed' => \A c \in Owed("exit")' :
             \/ wanted'["exit"][c] <= written'[c]
             \/ c \in todo'["exit"]
             \/ \E v \in wanted'["exit"][c] .. version'[c] : <<"exit", c, v>> \in flushing'
    BY <1>1, <1>2 DEF IInv, RoundsAreFresh, Owed
  <2> QED
    BY <2>1, <2>2 DEF RoundsAreFresh
<1>9. ExitLosesLeaversOnly'
  BY <1>1, ExitUnchanged DEF IInv
<1> QED
  BY <1>3, <1>4, <1>5, <1>8, <1>9 DEF IInv

LEMMA ShutdownIInv ==
  ASSUME IInv, Shutdown
  PROVE  IInv'
<1>1. /\ running' = "stopping" /\ connected' = clients
      /\ todo' = [todo EXCEPT !["exit"] = clients]
      /\ wanted' = [wanted EXCEPT !["exit"] = version]
      /\ UNCHANGED <<clients, pending, used, report, version, dirty, flushing,
                     saved, failures, failed, ticking, written, late>>
  BY DEF Shutdown, ToFlush
<1>2. /\ todo' \in [Flushers -> SUBSET Clients]
      /\ todo'["exit"] = clients
      /\ \A x \in {"sync", "unregister"} : todo'[x] = todo[x]
      /\ wanted' \in [{"sync", "exit"} -> [Clients -> 0 .. MaxReports]]
      /\ wanted'["exit"] = version /\ wanted'["sync"] = wanted["sync"]
  BY <1>1 DEF IInv, TypeOK, Flushers
<1>3. TypeOK'
  BY <1>1, <1>2 DEF IInv, TypeOK
<1>4. FlushesAreInOrder'
  BY <1>1 DEF IInv, FlushesAreInOrder
<1>5. LeaversAreFlushed'
  BY <1>1, <1>2 DEF IInv, LeaversAreFlushed
<1>6. \A c \in Clients : version[c] <= version[c]
  BY VersionFields DEF IInv
<1>7. RoundsAreFresh'
  <2>1. /\ \A c \in Clients : wanted'["exit"][c] <= version'[c]
        /\ \A c \in Owed("exit")' : c \in todo'["exit"]
    BY <1>1, <1>2, <1>6 DEF Owed
  <2>2. /\ \A c \in Clients : wanted'["sync"][c] <= version'[c]
        /\ "sync" \notin failed' => \A c \in Owed("sync")' :
             \/ wanted'["sync"][c] <= written'[c]
             \/ c \in todo'["sync"]
             \/ \E v \in wanted'["sync"][c] .. version'[c] : <<"sync", c, v>> \in flushing'
    BY <1>1, <1>2 DEF IInv, RoundsAreFresh, Owed
  <2> QED
    BY <2>1, <2>2 DEF RoundsAreFresh
<1>8. ExitLosesLeaversOnly'
  BY <1>1 DEF ExitLosesLeaversOnly
<1> QED
  BY <1>3, <1>4, <1>5, <1>7, <1>8 DEF IInv

\* A round that is over and has not failed owes nothing.
LEMMA RoundIsOver ==
  ASSUME IInv, NEW x \in {"sync", "exit"}, Idle(x), x \notin failed, NEW c \in Owed(x)
  PROVE  wanted[x][c] <= written[c]
<1>1. \A v : <<x, c, v>> \notin flushing
  BY DEF Idle
<1>2. c \notin todo[x]
  BY DEF Idle
<1> QED
  BY <1>1, <1>2 DEF IInv, RoundsAreFresh

LEMMA ExitIInv ==
  ASSUME IInv, Exit
  PROVE  IInv'
<1>1. /\ running = "stopping" /\ Idle("exit") /\ running' = "down"
      /\ UNCHANGED <<clients, pending, used, report, version, dirty, todo, flushing,
                     saved, failures, failed, ticking, connected, written, wanted,
                     late>>
  BY DEF Exit
<1>2. TypeOK'
  BY <1>1 DEF IInv, TypeOK
<1>3. FlushesAreInOrder'
  BY <1>1 DEF IInv, FlushesAreInOrder
<1>4. LeaversAreFlushed'
  BY <1>1 DEF IInv, LeaversAreFlushed
<1>5. RoundsAreFresh'
  BY <1>1, RoundsUnchanged DEF IInv
<1>6. "exit" \notin failed => \A c \in connected : wanted["exit"][c] <= written[c]
  BY <1>1, RoundIsOver DEF Owed
<1>7. \A c \in connected : wanted["exit"][c] \in Nat /\ written[c] \in Nat
  BY VersionFields DEF IInv, TypeOK
<1>8. ExitLosesLeaversOnly'
  <2>1. ASSUME NEW c \in Clients \ late, c \notin connected
        PROVE  written[c] >= wanted["exit"][c] \/ LeaverIsCutOff(c)
    <3>1. /\ wanted["exit"][c] \in Nat /\ written[c] \in Nat /\ version[c] \in Nat
          /\ wanted["exit"][c] <= version[c]
      BY VersionFields DEF IInv, RoundsAreFresh
    <3>2. CASE dirty[c]
      <4>1. c \notin clients
        BY <1>1, <2>1 DEF IInv, LeaversAreFlushed, Exit
      <4>2. c \in todo["unregister"] \/ <<"unregister", c, version[c]>> \in flushing
        BY <2>1, <3>2, <4>1 DEF IInv, LeaversAreFlushed
      <4> QED
        BY <2>1, <4>2 DEF LeaverIsCutOff
    <3>3. CASE ~dirty[c]
      <4>1. written[c] = version[c]
        BY <3>3 DEF IInv, FlushesAreInOrder
      <4> QED
        BY <3>1, <4>1
    <3> QED
      BY <3>2, <3>3
  <2>2. \A c \in Clients \ late :
          c \notin connected => written[c] >= wanted["exit"][c] \/ LeaverIsCutOff(c)
    BY <2>1
  <2>3. /\ todo' = todo /\ flushing' = flushing /\ connected' = connected
        /\ written' = written /\ wanted' = wanted /\ late' = late /\ failed' = failed
    BY <1>1
  <2>4. \A c : LeaverIsCutOff(c)' <=> LeaverIsCutOff(c)
    BY <2>3 DEF LeaverIsCutOff
  <2> QED
    BY <1>6, <1>7, <2>2, <2>3, <2>4 DEF ExitLosesLeaversOnly
<1> QED
  BY <1>2, <1>3, <1>4, <1>5, <1>8 DEF IInv

-----------------------------------------------------------------------------
(* The specification *)

LEMMA InitIInv == Init => IInv
<1> SUFFICES ASSUME Init PROVE IInv
  OBVIOUS
<1> USE ConstantsAssumption DEF Init
<1>1. TypeOK
  BY DEF TypeOK, Reports, NoReport
<1>2. FlushesAreInOrder
  BY DEF FlushesAreInOrder
<1>3. LeaversAreFlushed
  BY DEF LeaversAreFlushed
<1>4. RoundsAreFresh
  BY DEF RoundsAreFresh, Owed
<1>5. ExitLosesLeaversOnly
  BY DEF ExitLosesLeaversOnly
<1> QED
  BY <1>1, <1>2, <1>3, <1>4, <1>5 DEF IInv

LEMMA UnchangedIInv ==
  ASSUME IInv, UNCHANGED vars
  PROVE  IInv'
<1> USE DEF vars
<1>1. TypeOK'
  BY DEF IInv, TypeOK
<1>2. FlushesAreInOrder'
  BY DEF IInv, FlushesAreInOrder
<1>3. LeaversAreFlushed'
  BY DEF IInv, LeaversAreFlushed
<1>4. RoundsAreFresh'
  BY RoundsUnchanged DEF IInv
<1>5. ExitLosesLeaversOnly'
  BY DEF IInv, ExitLosesLeaversOnly, LeaverIsCutOff
<1> QED
  BY <1>1, <1>2, <1>3, <1>4, <1>5 DEF IInv

\* Only a save changes the row, and it writes a version as new as what the
\* connection has saved before.
RowMovesOn ==
  \A c \in Clients : saved'.by = c =>
    /\ saved.by = c => saved'.version >= saved.version
    /\ saved' # saved => saved'.version >= written[c]

LEMMA SavesMoveOn ==
  ASSUME IInv, NEW c, NEW n,
         \/ saved' = saved
         \/ /\ saved'.by = c /\ saved'.version = n /\ written[c] <= n
            /\ n \in Nat
            /\ saved.by = c => saved.version <= n
  PROVE  RowMovesOn
<1> SUFFICES ASSUME NEW d \in Clients, saved'.by = d
             PROVE  /\ saved.by = d => saved'.version >= saved.version
                    /\ saved' # saved => saved'.version >= written[d]
  BY DEF RowMovesOn
<1>1. saved.version \in Nat /\ written[d] \in Nat
  BY VersionFields DEF IInv
<1> QED
  BY <1>1

LEMMA NextIInv ==
  ASSUME IInv, [Next]_vars
  PROVE  IInv' /\ RowMovesOn
<1>1. ASSUME saved' = saved PROVE RowMovesOn
  <2>1. saved.version \in Nat
    BY ConstantsAssumption DEF IInv, TypeOK
  <2> QED
    BY <2>1, <1>1 DEF RowMovesOn
<1>2. CASE \E c \in Clients :
             \/ Register(c)
             \/ \E onFoot, roomChanged \in BOOLEAN : HandlePresence(c, onFoot, roomChanged)
             \/ MarkLocation(c)
             \/ Unregister(c)
             \/ UnregisterEnds(c)
  <2>1. PICK c \in Clients :
          \/ Register(c)
          \/ \E onFoot, roomChanged \in BOOLEAN : HandlePresence(c, onFoot, roomChanged)
          \/ MarkLocation(c)
          \/ Unregister(c)
          \/ UnregisterEnds(c)
    BY <1>2
  <2>2. saved' = saved
    BY <2>1 DEF Register, HandlePresence, MarkLocation, Unregister, UnregisterEnds
  <2> QED
    BY <2>1, <2>2, <1>1, RegisterIInv, HandlePresenceIInv, MarkLocationIInv,
       UnregisterIInv, UnregisterEndsIInv
<1>3. CASE Flush
  <2>1. CASE \E x \in Flushers, c \in Clients : SkipFlush(x, c) \/ BeginFlush(x, c)
    <3>1. saved' = saved
      BY <2>1 DEF SkipFlush, BeginFlush
    <3> QED
      BY <2>1, <3>1, <1>1, SkipFlushIInv, BeginFlushIInv
  <2>2. ASSUME NEW t \in flushing, FlushSaves(t[1], t[2], t[3])
        PROVE  IInv' /\ RowMovesOn
    BY <2>2, FlushSavesIInv, SavesMoveOn
  <2>3. ASSUME NEW t \in flushing, NEW wrote \in BOOLEAN,
               FlushFails(t[1], t[2], t[3], wrote)
        PROVE  IInv' /\ RowMovesOn
    BY <2>3, FlushFailsIInv, SavesMoveOn
  <2> QED
    BY <1>3, <2>1, <2>2, <2>3 DEF Flush
<1>4. CASE TickerFlush
  BY <1>4, <1>1, TickerFlushIInv DEF TickerFlush
<1>5. CASE SyncAccountLocations
  BY <1>5, <1>1, SyncIInv DEF SyncAccountLocations
<1>6. CASE Shutdown
  BY <1>6, <1>1, ShutdownIInv DEF Shutdown
<1>7. CASE Exit
  BY <1>7, <1>1, ExitIInv DEF Exit
<1>8. CASE UNCHANGED vars
  BY <1>8, <1>1, UnchangedIInv DEF vars
<1> QED
  BY <1>2, <1>3, <1>4, <1>5, <1>6, <1>7, <1>8 DEF Next

\* The inductive invariant holds in every reachable state of Locations.
THEOREM Invariance == Spec => []IInv
<1>1. Init => IInv
  BY InitIInv
<1>2. IInv /\ [Next]_vars => IInv'
  BY NextIInv
<1> QED
  BY <1>1, <1>2, PTL DEF Spec

\* The state of the Hub's flushers always has its type.
THEOREM TypeCorrect == Spec => []TypeOK
<1>1. IInv => TypeOK
  BY DEF IInv
<1> QED
  BY <1>1, Invariance, PTL

\* When SyncAccountLocations has flushed every connection of the account
\* without an error, whatever had been marked before the character list was
\* asked for is in the row: connected, or half unregistered.
THEOREM SyncAlwaysFresh == Spec => []SyncIsFresh
<1>1. IInv => SyncIsFresh
  <2> SUFFICES ASSUME IInv, Idle("sync"), "sync" \notin failed, NEW c \in Clients \ late
               PROVE  written[c] >= wanted["sync"][c]
    BY DEF SyncIsFresh
  <2>1. wanted["sync"][c] <= written[c]
    BY RoundIsOver DEF Owed
  <2> QED
    BY <2>1, VersionFields DEF IInv
<1> QED
  BY <1>1, Invariance, PTL

\* After main's last FlushLocations, if none of its saves failed, all that was
\* marked before is saved, except of connections whose Unregister was still to
\* flush them when the process ended.
THEOREM OnlyLeaversAreLost == Spec => []ExitLosesLeaversOnly
<1>1. IInv => ExitLosesLeaversOnly
  BY DEF IInv
<1> QED
  BY <1>1, Invariance, PTL

\* flushLocation never puts an older location of a connection over a newer one,
\* whichever of its five callers saves first and whatever fails.
THEOREM SavesAreInOrder == Spec => SavedInOrder
<1>1. IInv /\ [Next]_vars => [RowMovesOn]_vars
  BY NextIInv
<1>2. RowMovesOn <=> \A c \in Clients : saved'.by = c =>
                        /\ saved.by = c => saved'.version >= saved.version
                        /\ saved' # saved => saved'.version >= written[c]
  BY DEF RowMovesOn
<1> QED
  BY <1>1, <1>2, Invariance, PTL DEF Spec, SavedInOrder

\* A location that is not saved always has somebody to save it: its connection
\* is in clients, for the ticker, or in pendingLocations with the flush of
\* Unregister before it.
THEOREM LeaversAlwaysFlushed == Spec => []LeaversAreFlushed
<1>1. IInv => LeaversAreFlushed
  BY DEF IInv
<1> QED
  BY <1>1, Invariance, PTL

=============================================================================
