-------------------------- MODULE NetCaptureProofs --------------------------
(***************************************************************************)
(* Proofs about the packet capture and the printing of roles, for any      *)
(* nodes, capacity of the channel, number of packets and list of roles.    *)
(***************************************************************************)
EXTENDS NetCapture, FiniteSetTheorems, TLAPS

NodeCounts == [SrcCount : Nat, DstCount : Nat]

\* TypeOK in two parts.
StaticOK ==
    /\ flags \in [static : BOOLEAN, dynamic : BOOLEAN]
    /\ roles \in {RoleFile, <<>>}
CaptureOK ==
    /\ mpc \in {"flags", "roles", "printRole", "initialize", "start", "sleep", "stop", "close",
                "print", "done"}
    /\ ppc \in {"off", "open", "select", "countSrc", "countDst", "done", "panicked"}
    /\ reader \in {"off", "reading", "eof"}
    /\ handle \in BOOLEAN
    /\ queue \in Seq(Packets) /\ Len(queue) <= QueueLen
    /\ packet \in Packets
    /\ DOMAIN Stats \subseteq Nodes
    /\ \A n \in DOMAIN Stats : Stats[n] \in NodeCounts
    /\ arrived \in 0..MaxPackets
    /\ done \in Seq(Packets)

\* printed lists the first roles, each under its name.
Line(rs, i) ==
    [Name |-> rs[i].Name, Info |-> GetNodeStaticAnalysisInfo(rs, rs[i].Name)]
Lines(rs) == {Line(rs, i) : i \in 1..Len(rs)}
PrintedInv ==
    /\ printed \in Seq(Lines(roles))
    /\ Len(printed) <= Len(roles)
    /\ \A i \in 1..Len(printed) : printed[i] = Line(roles, i)
    /\ mpc \in {"flags", "roles"} => printed = <<>>

\* ProcessPackets runs only between its start and the stop message.
PhaseInv ==
    /\ mpc \in {"flags", "roles", "printRole", "initialize", "start"} => ppc = "off"
    /\ mpc \in {"close", "print", "done"} => ppc \in {"off", "done"}

-----------------------------------------------------------------------------
(* Types.                                                                  *)

LEMMA FirstTaken ==
    ASSUME NEW S, NEW q \in Seq(S), q # <<>>
    PROVE  Head(q) \in S /\ Tail(q) \in Seq(S) /\ Len(Tail(q)) <= Len(q)
OBVIOUS

LEMMA LenInNat == \A S : \A q \in Seq(S) : Len(q) \in Nat
OBVIOUS

LEMMA LastAdded ==
    ASSUME NEW S, NEW q \in Seq(S), NEW e \in S
    PROVE  /\ Append(q, e) \in Seq(S)
           /\ Len(Append(q, e)) = Len(q) + 1 /\ Len(q) \in Nat
           /\ \A i \in 1..Len(q) : Append(q, e)[i] = q[i]
           /\ Append(q, e)[Len(q) + 1] = e
OBVIOUS

LEMMA PutType ==
    ASSUME DOMAIN Stats \subseteq Nodes,
           \A n \in DOMAIN Stats : Stats[n] \in NodeCounts,
           NEW n \in Nodes, NEW ns \in NodeCounts
    PROVE  LET new == Put(n, ns)
           IN  DOMAIN new \subseteq Nodes /\ \A m \in DOMAIN new : new[m] \in NodeCounts
BY DEF Put

LEMMA NodeStatsType ==
    ASSUME \A n \in DOMAIN Stats : Stats[n] \in NodeCounts, NEW n \in Nodes
    PROVE  /\ NodeStats(n) \in NodeCounts
           /\ [NodeStats(n) EXCEPT !.SrcCount = @ + 1] \in NodeCounts
           /\ [NodeStats(n) EXCEPT !.DstCount = @ + 1] \in NodeCounts
<1>1. NodeStats(n) \in NodeCounts
    BY DEF NodeStats, NodeCounts
<1>. DEFINE s == NodeStats(n)
<1>2. [s EXCEPT !.SrcCount = @ + 1] \in NodeCounts /\ [s EXCEPT !.DstCount = @ + 1] \in NodeCounts
    <2>1. s \in NodeCounts
        BY <1>1
    <2>. HIDE DEF s
    <2>2. QED
        BY <2>1 DEF NodeCounts
<1>3. QED
    BY <1>1, <1>2

LEMMA CaptureInit == Init => CaptureOK
<1>. SUFFICES ASSUME Init PROVE CaptureOK
    OBVIOUS
<1>1. Packets # {}
    <2>1. PICK n \in Nodes : TRUE
        BY CaptureAssumption
    <2>2. [src |-> n, dst |-> n] \in Packets
        BY DEF Packets
    <2>3. QED
        BY <2>2
<1>2. packet \in Packets
    BY <1>1 DEF Init
<1>3. queue \in Seq(Packets) /\ Len(queue) <= QueueLen /\ done \in Seq(Packets)
    BY CaptureAssumption DEF Init
<1>4. DOMAIN Stats \subseteq Nodes /\ \A n \in DOMAIN Stats : Stats[n] \in NodeCounts
    BY DEF Init
<1>5. mpc = "flags" /\ ppc = "off" /\ reader = "off" /\ handle = FALSE /\ arrived = 0
    BY DEF Init
<1>6. arrived \in 0..MaxPackets
    BY <1>5, CaptureAssumption
<1>7. QED
    BY <1>2, <1>3, <1>4, <1>5, <1>6 DEF CaptureOK

LEMMA CaptureNext == CaptureOK /\ [Next]_vars => CaptureOK'
<1>. SUFFICES ASSUME CaptureOK, [Next]_vars PROVE CaptureOK'
    OBVIOUS
<1>0. /\ queue \in Seq(Packets) /\ Len(queue) <= QueueLen /\ done \in Seq(Packets)
      /\ packet \in Packets /\ packet.src \in Nodes /\ packet.dst \in Nodes
      /\ DOMAIN Stats \subseteq Nodes /\ \A n \in DOMAIN Stats : Stats[n] \in NodeCounts
    BY DEF CaptureOK, Packets
<1>. USE DEF CaptureOK
<1>1. CASE StaticAnalysis
    BY <1>1 DEF StaticAnalysis, ReadFlags, InitializeNodeRoles, InitializeNodeRolesFails,
       PrintRole, AllRolesPrinted, capture
<1>2. CASE \/ InitializeCapture \/ InitializeFails \/ StartCapture \/ SleepEnds
           \/ CloseHandle \/ PrintStats
    BY <1>2 DEF InitializeCapture, InitializeFails, StartCapture, SleepEnds, CloseHandle, PrintStats
<1>3. CASE OpenSource \/ FinishCapture \/ ReceiveNil \/ ReadEOF
    BY <1>3 DEF OpenSource, FinishCapture, ReceiveNil, ReadEOF
<1>4. CASE ReceivePacket
    <2>1. queue # <<>> /\ packet' = Head(queue) /\ queue' = Tail(queue)
        BY <1>4 DEF ReceivePacket
    <2>2. packet' \in Packets /\ queue' \in Seq(Packets) /\ Len(queue') <= QueueLen
        <3>1. Len(queue) \in Nat /\ Len(Tail(queue)) \in Nat /\ QueueLen \in Nat
            BY <1>0, <2>1, FirstTaken, CaptureAssumption
        <3>. HIDE DEF CaptureOK
        <3>2. QED
            BY <1>0, <2>1, <3>1, FirstTaken
    <2>3. QED
        BY <1>4, <2>2 DEF ReceivePacket
<1>5. CASE ReadPacket
    <2>1. PICK p \in Packets : queue' = Append(queue, p)
        BY <1>5 DEF ReadPacket
    <2>2. queue' \in Seq(Packets) /\ Len(queue') = Len(queue) + 1 /\ Len(queue) \in Nat
        <3>. HIDE DEF CaptureOK
        <3>1. QED
            BY <1>0, <2>1, LastAdded
    <2>3. Len(queue') <= QueueLen /\ arrived' \in 0..MaxPackets
        BY <1>5, <2>2, CaptureAssumption DEF ReadPacket
    <2>4. QED
        BY <1>5, <2>2, <2>3 DEF ReadPacket
<1>6. CASE processPacketSrc
    <2>. DEFINE ns == [NodeStats(packet.src) EXCEPT !.SrcCount = @ + 1]
    <2>1. packet.src \in Nodes
        BY <1>0
    <2>2. ns \in NodeCounts
        <3>. HIDE DEF CaptureOK
        <3>. QED  BY <1>0, <2>1, NodeStatsType
    <2>3. Stats' = Put(packet.src, ns)
        BY <1>6 DEF processPacketSrc
    <2>4. DOMAIN Stats' \subseteq Nodes /\ \A m \in DOMAIN Stats' : Stats'[m] \in NodeCounts
        <3>. HIDE DEF ns, CaptureOK
        <3>. QED  BY <1>0, <2>1, <2>2, <2>3, PutType
    <2>5. QED
        BY <1>6, <2>4 DEF processPacketSrc
<1>7. CASE processPacketDst
    <2>. DEFINE ns == [NodeStats(packet.dst) EXCEPT !.DstCount = @ + 1]
    <2>1. packet.dst \in Nodes
        BY <1>0
    <2>2. ns \in NodeCounts
        <3>. HIDE DEF CaptureOK
        <3>. QED  BY <1>0, <2>1, NodeStatsType
    <2>3. Stats' = Put(packet.dst, ns)
        BY <1>7 DEF processPacketDst
    <2>4. DOMAIN Stats' \subseteq Nodes /\ \A m \in DOMAIN Stats' : Stats'[m] \in NodeCounts
        <3>. HIDE DEF ns, CaptureOK
        <3>. QED  BY <1>0, <2>1, <2>2, <2>3, PutType
    <2>5. done' \in Seq(Packets)
        BY <1>0, <1>7, LastAdded DEF processPacketDst
    <2>6. QED
        BY <1>7, <2>4, <2>5 DEF processPacketDst
<1>8. CASE UNCHANGED vars
    BY <1>8 DEF vars
<1>9. QED
    BY <1>1, <1>2, <1>3, <1>4, <1>5, <1>6, <1>7, <1>8 DEF Next, Main, Process, Reader, Halted

LEMMA StaticInit == Init => StaticOK /\ PrintedInv
<1>. SUFFICES ASSUME Init PROVE StaticOK /\ PrintedInv
    OBVIOUS
<1>1. QED
    BY DEF Init, StaticOK, PrintedInv

LEMMA StaticNext == StaticOK /\ PrintedInv /\ [Next]_vars => (StaticOK /\ PrintedInv)'
<1>. SUFFICES ASSUME StaticOK, PrintedInv, [Next]_vars PROVE (StaticOK /\ PrintedInv)'
    OBVIOUS
<1>1. CASE ReadFlags \/ InitializeNodeRolesFails \/ AllRolesPrinted
    BY <1>1 DEF ReadFlags, InitializeNodeRolesFails, AllRolesPrinted, static, StaticOK, PrintedInv
<1>2. CASE InitializeNodeRoles
    <2>1. printed = <<>> /\ printed' = printed /\ roles' \in {RoleFile, <<>>} /\ flags' = flags
          /\ mpc' = "printRole"
        BY <1>2 DEF InitializeNodeRoles, PrintedInv
    <2>2. Len(roles') \in Nat
        <3>1. Len(RoleFile) \in Nat
            BY RoleFileAssumption
        <3>2. QED
            BY <2>1, <3>1
    <2>3. printed' \in Seq(Lines(roles')) /\ Len(printed') = 0
        BY <2>1
    <2>4. QED
        BY <2>1, <2>2, <2>3 DEF StaticOK, PrintedInv
<1>3. CASE PrintRole
    <2>. DEFINE k == Len(printed) + 1
    <2>1. Len(roles) \in Nat
        <3>1. Len(RoleFile) \in Nat
            BY RoleFileAssumption
        <3>2. QED
            BY <3>1 DEF StaticOK
    <2>2. /\ printed \in Seq(Lines(roles)) /\ Len(printed) <= Len(roles)
          /\ \A i \in 1..Len(printed) : printed[i] = Line(roles, i)
        BY DEF PrintedInv
    <2>3. Len(printed) \in Nat
        BY <2>2, LenInNat
    <2>4. /\ printed' = Append(printed, Line(roles, k))
          /\ Len(printed) < Len(roles)
          /\ roles' = roles /\ flags' = flags /\ mpc' = mpc /\ mpc = "printRole"
        BY <1>3 DEF PrintRole, Line
    <2>5. k \in 1..Len(roles)
        BY <2>1, <2>3, <2>4
    <2>6. Line(roles, k) \in Lines(roles)
        BY <2>5 DEF Lines
    <2>7. /\ printed' \in Seq(Lines(roles)) /\ Len(printed') = k
          /\ \A i \in 1..Len(printed) : printed'[i] = printed[i]
          /\ printed'[k] = Line(roles, k)
        BY <2>2, <2>4, <2>6, LastAdded
    <2>8. \A i \in 1..k : printed'[i] = Line(roles, i)
        BY <2>2, <2>3, <2>7
    <2>9. QED
        <3>. HIDE DEF k
        <3>. QED  BY <2>4, <2>5, <2>7, <2>8 DEF StaticOK, PrintedInv
<1>4. CASE \/ InitializeCapture \/ InitializeFails \/ StartCapture \/ SleepEnds
           \/ CloseHandle \/ PrintStats
    BY <1>4 DEF InitializeCapture, InitializeFails, StartCapture, SleepEnds, CloseHandle,
       PrintStats, static, StaticOK, PrintedInv
<1>5. CASE Process \/ Reader
    BY <1>5 DEF Process, Reader, OpenSource, FinishCapture, ReceivePacket, ReceiveNil,
       processPacketSrc, processPacketDst, ReadPacket, ReadEOF, static, StaticOK, PrintedInv
<1>6. CASE UNCHANGED vars
    BY <1>6 DEF vars, static, StaticOK, PrintedInv
<1>7. QED
    BY <1>1, <1>2, <1>3, <1>4, <1>5, <1>6 DEF Next, Main, StaticAnalysis, Halted

\* The state of main, ProcessPackets and the reader keeps its type.
THEOREM TypeCorrect == Spec => []TypeOK
<1>1. StaticOK /\ PrintedInv => Len(printed) <= Len(roles)
    BY RoleFileAssumption DEF StaticOK, PrintedInv
<1>2. StaticOK /\ PrintedInv /\ CaptureOK => TypeOK
    BY <1>1 DEF StaticOK, CaptureOK, NodeCounts, TypeOK
<1>3. QED
    BY StaticInit, StaticNext, CaptureInit, CaptureNext, <1>2, PTL DEF Spec

-----------------------------------------------------------------------------
(* The stop message.                                                       *)

LEMMA PhaseInvAlways == Spec => []PhaseInv
<1>1. Init => PhaseInv
    BY DEF Init, PhaseInv
<1>2. PhaseInv /\ [Next]_vars => PhaseInv'
    <2>. SUFFICES ASSUME PhaseInv, [Next]_vars PROVE PhaseInv'
        OBVIOUS
    <2>1. CASE StaticAnalysis
        BY <2>1 DEF StaticAnalysis, ReadFlags, InitializeNodeRoles, InitializeNodeRolesFails,
           PrintRole, AllRolesPrinted, capture, PhaseInv
    <2>2. CASE \/ InitializeCapture \/ InitializeFails \/ StartCapture \/ SleepEnds
               \/ CloseHandle \/ PrintStats
        BY <2>2 DEF InitializeCapture, InitializeFails, StartCapture, SleepEnds, CloseHandle,
           PrintStats, PhaseInv
    <2>3. CASE Process \/ Reader
        BY <2>3 DEF Process, Reader, OpenSource, FinishCapture, ReceivePacket, ReceiveNil,
           processPacketSrc, processPacketDst, ReadPacket, ReadEOF, PhaseInv
    <2>4. CASE UNCHANGED vars
        BY <2>4 DEF vars, PhaseInv
    <2>5. QED
        BY <2>1, <2>2, <2>3, <2>4 DEF Next, Main, Halted
<1>3. QED
    BY <1>1, <1>2, PTL DEF Spec

\* After the stop message no step of any goroutine touches the statistics that
\* main reads without a lock.
THEOREM StatsStayFrozen == Spec => StatsFrozen
<1>1. PhaseInv /\ [Next]_vars => ((mpc \in {"close", "print", "done"}) => UNCHANGED Stats)
    BY DEF Next, Main, StaticAnalysis, Process, Reader, Halted, ReadFlags, InitializeNodeRoles,
       InitializeNodeRolesFails, PrintRole, AllRolesPrinted, InitializeCapture, InitializeFails,
       StartCapture, SleepEnds, CloseHandle, PrintStats, OpenSource, FinishCapture,
       ReceivePacket, ReceiveNil, processPacketSrc, processPacketDst, ReadPacket, ReadEOF,
       capture, vars, PhaseInv
<1>2. QED
    BY PhaseInvAlways, <1>1, PTL DEF Spec, StatsFrozen

-----------------------------------------------------------------------------
(* The counts.                                                             *)

Sent(d, n) == {i \in DOMAIN d : d[i].src = n}
Received(d, n) == {i \in DOMAIN d : d[i].dst = n}

\* The entry of a node agrees with the packets done, but for the sender of the
\* packet that is half way through.
CountsInv ==
    \A n \in Nodes :
        /\ NodeStats(n).SrcCount = Cardinality(Sent(done, n))
                                   + (IF ppc = "countDst" /\ packet.src = n THEN 1 ELSE 0)
        /\ NodeStats(n).DstCount = Cardinality(Received(done, n))

LEMMA OneMorePacket ==
    ASSUME NEW d \in Seq(Packets), NEW p \in Packets, NEW n
    PROVE  /\ Cardinality(Sent(d, n)) \in Nat
           /\ Cardinality(Received(d, n)) \in Nat
           /\ Cardinality(Sent(Append(d, p), n)) =
                  Cardinality(Sent(d, n)) + (IF p.src = n THEN 1 ELSE 0)
           /\ Cardinality(Received(Append(d, p), n)) =
                  Cardinality(Received(d, n)) + (IF p.dst = n THEN 1 ELSE 0)
<1>. DEFINE k == Len(d)
            e == Append(d, p)
<1>1. /\ k \in Nat /\ DOMAIN d = 1..k /\ DOMAIN e = 1..(k + 1)
      /\ \A i \in 1..k : e[i] = d[i]
      /\ e[k + 1] = p
    OBVIOUS
<1>2. IsFiniteSet(1..k)
    BY <1>1, FS_Interval
<1>3. IsFiniteSet(Sent(d, n)) /\ IsFiniteSet(Received(d, n))
    BY <1>1, <1>2, FS_Subset, Sent(d, n) \subseteq 1..k, Received(d, n) \subseteq 1..k
       DEF Sent, Received
<1>4. Cardinality(Sent(d, n)) \in Nat /\ Cardinality(Received(d, n)) \in Nat
    BY <1>3, FS_CardinalityType
<1>. HIDE DEF k, e
<1>5. k + 1 \notin Sent(d, n) /\ k + 1 \notin Received(d, n)
    BY <1>1 DEF Sent, Received
<1>6. Sent(e, n) = IF p.src = n THEN Sent(d, n) \cup {k + 1} ELSE Sent(d, n)
    BY <1>1 DEF Sent
<1>7. Received(e, n) = IF p.dst = n THEN Received(d, n) \cup {k + 1} ELSE Received(d, n)
    BY <1>1 DEF Received
<1>8. Cardinality(Sent(d, n) \cup {k + 1}) = Cardinality(Sent(d, n)) + 1
    BY <1>3, <1>5, FS_AddElement
<1>9. Cardinality(Received(d, n) \cup {k + 1}) = Cardinality(Received(d, n)) + 1
    BY <1>3, <1>5, FS_AddElement
<1>10. QED
    BY <1>4, <1>6, <1>7, <1>8, <1>9 DEF e

\* What Put does to the entries, seen through NodeStats.
LEMMA Entries ==
    ASSUME NEW n, NEW ns, Stats' = Put(n, ns)
    PROVE  \A m : NodeStats(m)' = IF m = n THEN ns ELSE NodeStats(m)
BY DEF Put, NodeStats

LEMMA NoneDone ==
    ASSUME NEW n
    PROVE  Cardinality(Sent(<<>>, n)) = 0 /\ Cardinality(Received(<<>>, n)) = 0
BY FS_EmptySet, Sent(<<>>, n) = {}, Received(<<>>, n) = {} DEF Sent, Received

LEMMA CountsInvInit == Init => CountsInv
<1>1. Init => done = <<>> /\ ppc = "off" /\ \A n : NodeStats(n) = [SrcCount |-> 0, DstCount |-> 0]
    BY DEF Init, NodeStats
<1>2. QED
    BY <1>1, NoneDone DEF CountsInv

LEMMA CountsInvNext == CaptureOK /\ PhaseInv /\ CountsInv /\ [Next]_vars => CountsInv'
<1>. SUFFICES ASSUME CaptureOK, PhaseInv, CountsInv, [Next]_vars PROVE CountsInv'
    OBVIOUS
<1>0. /\ done \in Seq(Packets) /\ packet \in Packets
      /\ \A n \in Nodes : NodeStats(n) \in NodeCounts
    BY NodeStatsType DEF CaptureOK
<1>1. CASE processPacketSrc
    <2>. DEFINE ns == [NodeStats(packet.src) EXCEPT !.SrcCount = @ + 1]
    <2>1. /\ Stats' = Put(packet.src, ns) /\ ppc = "countSrc" /\ ppc' = "countDst"
          /\ packet' = packet /\ done' = done
        BY <1>1 DEF processPacketSrc
    <2>2. \A m : NodeStats(m)' = IF m = packet.src THEN ns ELSE NodeStats(m)
        <3>. HIDE DEF ns
        <3>. QED  BY <2>1, Entries
    <2>3. SUFFICES ASSUME NEW n \in Nodes
          PROVE  /\ NodeStats(n)'.SrcCount = Cardinality(Sent(done, n))
                        + (IF packet.src = n THEN 1 ELSE 0)
                 /\ NodeStats(n)'.DstCount = Cardinality(Received(done, n))
        BY <2>1 DEF CountsInv
    <2>4. NodeStats(n).SrcCount = Cardinality(Sent(done, n)) + 0
          /\ NodeStats(n).DstCount = Cardinality(Received(done, n))
        BY <2>1 DEF CountsInv
    <2>5. Cardinality(Sent(done, n)) \in Nat /\ NodeStats(n) \in NodeCounts
        BY <1>0, OneMorePacket
    <2>6. CASE n = packet.src
        <3>. DEFINE s == NodeStats(n)
        <3>1. NodeStats(n)' = [s EXCEPT !.SrcCount = @ + 1]
            BY <2>2, <2>6
        <3>2. [s EXCEPT !.SrcCount = @ + 1].SrcCount = s.SrcCount + 1
              /\ [s EXCEPT !.SrcCount = @ + 1].DstCount = s.DstCount
            <4>1. s \in NodeCounts
                BY <2>5
            <4>. HIDE DEF s
            <4>2. QED
                BY <4>1 DEF NodeCounts
        <3>3. QED
            BY <2>4, <2>5, <2>6, <3>1, <3>2
    <2>7. CASE n # packet.src
        BY <2>2, <2>4, <2>7
    <2>8. QED
        BY <2>6, <2>7
<1>2. CASE processPacketDst
    <2>. DEFINE ns == [NodeStats(packet.dst) EXCEPT !.DstCount = @ + 1]
    <2>1. /\ Stats' = Put(packet.dst, ns) /\ ppc = "countDst" /\ ppc' = "select"
          /\ done' = Append(done, packet)
        BY <1>2 DEF processPacketDst
    <2>2. \A m : NodeStats(m)' = IF m = packet.dst THEN ns ELSE NodeStats(m)
        <3>. HIDE DEF ns
        <3>. QED  BY <2>1, Entries
    <2>3. SUFFICES ASSUME NEW n \in Nodes
          PROVE  /\ NodeStats(n)'.SrcCount = Cardinality(Sent(done', n)) + 0
                 /\ NodeStats(n)'.DstCount = Cardinality(Received(done', n))
        BY <2>1 DEF CountsInv
    <2>4. NodeStats(n).SrcCount = Cardinality(Sent(done, n)) + (IF packet.src = n THEN 1 ELSE 0)
          /\ NodeStats(n).DstCount = Cardinality(Received(done, n))
        BY <2>1 DEF CountsInv
    <2>5. /\ Cardinality(Sent(done, n)) \in Nat /\ Cardinality(Received(done, n)) \in Nat
          /\ Cardinality(Sent(done', n)) =
                 Cardinality(Sent(done, n)) + (IF packet.src = n THEN 1 ELSE 0)
          /\ Cardinality(Received(done', n)) =
                 Cardinality(Received(done, n)) + (IF packet.dst = n THEN 1 ELSE 0)
        BY <1>0, <2>1, OneMorePacket
    <2>6. CASE n = packet.dst
        <3>. DEFINE s == NodeStats(n)
        <3>1. NodeStats(n)' = [s EXCEPT !.DstCount = @ + 1]
            BY <2>2, <2>6
        <3>2. [s EXCEPT !.DstCount = @ + 1].DstCount = s.DstCount + 1
              /\ [s EXCEPT !.DstCount = @ + 1].SrcCount = s.SrcCount
            <4>1. s \in NodeCounts
                BY <1>0
            <4>. HIDE DEF s
            <4>2. QED
                BY <4>1 DEF NodeCounts
        <3>3. QED
            BY <2>4, <2>5, <2>6, <3>1, <3>2
    <2>7. CASE n # packet.dst
        BY <2>2, <2>4, <2>5, <2>7
    <2>8. QED
        BY <2>6, <2>7
<1>3. CASE UNCHANGED <<Stats, done>> /\ ppc # "countDst" /\ ppc' # "countDst"
    <2>1. \A n : NodeStats(n)' = NodeStats(n)
        BY <1>3 DEF NodeStats
    <2>2. QED
        BY <1>3, <2>1 DEF CountsInv
<1>4. CASE UNCHANGED <<Stats, done, ppc, packet>>
    <2>1. \A n : NodeStats(n)' = NodeStats(n)
        BY <1>4 DEF NodeStats
    <2>2. QED
        BY <1>4, <2>1 DEF CountsInv
<1>5. CASE StartCapture \/ OpenSource \/ FinishCapture \/ ReceivePacket \/ ReceiveNil
    BY <1>3, <1>5 DEF StartCapture, OpenSource, FinishCapture, ReceivePacket, ReceiveNil, PhaseInv
<1>6. CASE StaticAnalysis
    BY <1>4, <1>6 DEF StaticAnalysis, ReadFlags, InitializeNodeRoles, InitializeNodeRolesFails,
       PrintRole, AllRolesPrinted, capture
<1>7. CASE \/ InitializeCapture \/ InitializeFails \/ SleepEnds \/ CloseHandle \/ PrintStats
           \/ ReadPacket \/ ReadEOF
    BY <1>4, <1>7 DEF InitializeCapture, InitializeFails, SleepEnds, CloseHandle, PrintStats,
       ReadPacket, ReadEOF
<1>8. CASE UNCHANGED vars
    BY <1>4, <1>8 DEF vars
<1>9. QED
    BY <1>1, <1>2, <1>5, <1>6, <1>7, <1>8 DEF Next, Main, Process, Reader, Halted

\* Every node is counted once per packet it sends and once per packet it gets.
THEOREM CountsRight == Spec => []CountsExact
<1>1. CaptureOK /\ CountsInv => CountsExact
    <2>. SUFFICES ASSUME CaptureOK, CountsInv, ppc \in {"select", "done"}, NEW n \in Nodes
         PROVE  NodeStats(n) = [SrcCount |-> Cardinality(Sent(done, n)),
                                DstCount |-> Cardinality(Received(done, n))]
        BY DEF CountsExact, Sent, Received
    <2>1. NodeStats(n) \in NodeCounts
        BY NodeStatsType DEF CaptureOK
    <2>2. Cardinality(Sent(done, n)) \in Nat
        BY OneMorePacket DEF CaptureOK
    <2>3. NodeStats(n).SrcCount = Cardinality(Sent(done, n))
          /\ NodeStats(n).DstCount = Cardinality(Received(done, n))
        BY <2>2 DEF CountsInv
    <2>4. QED
        BY <2>1, <2>3 DEF NodeCounts
<1>2. QED
    BY PhaseInvAlways, CaptureInit, CaptureNext, CountsInvInit, CountsInvNext, <1>1, PTL DEF Spec

-----------------------------------------------------------------------------
(* The figures of the roles.                                               *)

LEMMA PiecesFinite ==
    ASSUME NEW r \in NodeRole
    PROVE  /\ Len(r.SourceCode) \in Nat
           /\ DOMAIN r.SourceCode = 1..Len(r.SourceCode)
           /\ IsFiniteSet(DOMAIN r.SourceCode)
           /\ Cardinality(DOMAIN r.SourceCode) = Len(r.SourceCode)
<1>1. r.SourceCode \in Seq(FileInfo)
    BY DEF NodeRole
<1>2. Len(r.SourceCode) \in Nat /\ DOMAIN r.SourceCode = 1..Len(r.SourceCode)
    BY <1>1
<1>3. QED
    BY <1>2, FS_Interval

LEMMA FilesBounded ==
    ASSUME NEW r \in NodeRole
    PROVE  GetTotalFiles(r) <= Len(r.SourceCode)
<1>. DEFINE S == DOMAIN r.SourceCode
            T == {r.SourceCode[i].Path : i \in S}
            f == [i \in S |-> r.SourceCode[i].Path]
<1>1. f \in Surjection(S, T)
    BY DEF Surjection
<1>2. Cardinality(T) <= Cardinality(S)
    BY <1>1, PiecesFinite, FS_Surjection
<1>3. QED
    BY <1>2, PiecesFinite DEF GetTotalFiles

LEMMA CallsFinite ==
    ASSUME NEW r \in NodeRole
    PROVE  IsFiniteSet(CallsFound(r))
<1>. DEFINE S == Parsed(r)
            T == {CallsOf(r, i) : i \in S}
            f == [i \in S |-> CallsOf(r, i)]
<1>1. IsFiniteSet(S)
    BY PiecesFinite, FS_Subset DEF Parsed
<1>2. f \in Surjection(S, T)
    BY DEF Surjection
<1>3. IsFiniteSet(T)
    BY <1>1, <1>2, FS_Surjection
<1>4. ASSUME NEW i \in S
      PROVE  IsFiniteSet(CallsOf(r, i))
    <2>. DEFINE D == DOMAIN Calls[r.SourceCode[i].Path]
                g == [k \in D |-> <<i, k>>]
    <2>1. Calls[r.SourceCode[i].Path] \in Seq(STRING)
        BY CallsAssumption DEF Parsed, Parsable
    <2>2. IsFiniteSet(D)
        BY <2>1, FS_Interval
    <2>3. g \in Surjection(D, CallsOf(r, i))
        BY DEF Surjection, CallsOf
    <2>4. QED
        BY <2>2, <2>3, FS_Surjection
<1>5. QED
    BY <1>3, <1>4, FS_UNION DEF CallsFound

LEMMA RatioRight ==
    ASSUME NEW r \in NodeRole
    PROVE  LET ratio == CalculateNetworkRatio(r)
           IN  /\ ratio.network \in 0..ratio.calls
               /\ ratio.calls = 0 <=> \A j \in Parsed(r) : Calls[r.SourceCode[j].Path] = <<>>
<1>. DEFINE N == {c \in CallsFound(r) : isNetwork(r, c)}
<1>1. Cardinality(CallsFound(r)) \in Nat /\ Cardinality(N) \in Nat
      /\ Cardinality(N) <= Cardinality(CallsFound(r))
    BY CallsFinite, FS_Subset, FS_CardinalityType
<1>2. CallsFound(r) = {} <=> \A j \in Parsed(r) : CallsOf(r, j) = {}
    BY DEF CallsFound
<1>3. ASSUME NEW j \in Parsed(r)
      PROVE  CallsOf(r, j) = {} <=> Calls[r.SourceCode[j].Path] = <<>>
    <2>. DEFINE names == Calls[r.SourceCode[j].Path]
    <2>1. names \in Seq(STRING)
        BY CallsAssumption DEF Parsed, Parsable
    <2>2. CallsOf(r, j) = {} <=> DOMAIN names = {}
        BY DEF CallsOf
    <2>3. DOMAIN names = {} <=> names = <<>>
        <3>. HIDE DEF names
        <3>. QED  BY <2>1
    <2>4. QED
        BY <2>2, <2>3
<1>4. Cardinality(CallsFound(r)) = 0 <=> CallsFound(r) = {}
    BY CallsFinite, FS_EmptySet
<1>5. QED
    BY <1>1, <1>2, <1>3, <1>4 DEF CalculateNetworkRatio

\* The search by name ends at the role itself if no earlier one has its name.
LEMMA OwnInfo ==
    ASSUME NEW rs \in Seq(NodeRole), NEW i \in 1..Len(rs),
           \A j \in 1..(i - 1) : rs[j].Name # rs[i].Name
    PROVE  GetNodeStaticAnalysisInfo(rs, rs[i].Name) = RoleInfo(rs[i])
<1>. DEFINE named == {j \in DOMAIN rs : rs[j].Name = rs[i].Name}
            first == CHOOSE k \in named : \A j \in named : k <= j
<1>1. i \in named /\ \A j \in named : i <= j
    OBVIOUS
<1>2. first \in named /\ \A j \in named : first <= j
    BY <1>1
<1>3. first = i
    BY <1>1, <1>2
<1>4. QED
    BY <1>3 DEF GetNodeStaticAnalysisInfo

\* Every role whose name is new is printed with figures of its own, for any list
\* of roles and any files.
THEOREM RolesPrinted == Spec => []RolesRight
<1>1. ASSUME StaticOK, PrintedInv, NEW i \in DOMAIN printed
      PROVE  /\ printed[i].Name = roles[i].Name
             /\ (\A j \in 1..(i - 1) : roles[j].Name # roles[i].Name) =>
                   printed[i].Info = RoleInfo(roles[i]) /\ roles[i] \in NodeRole
    <2>1. roles \in Seq(NodeRole)
        <3>1. <<>> \in Seq(NodeRole)
            OBVIOUS
        <3>2. QED
            BY <1>1, <3>1, RoleFileAssumption DEF StaticOK
    <2>2. i \in 1..Len(printed) /\ i \in 1..Len(roles)
        <3>1. Len(printed) \in Nat /\ Len(roles) \in Nat /\ Len(printed) <= Len(roles)
              /\ DOMAIN printed = 1..Len(printed)
            BY <1>1, <2>1, LenInNat DEF PrintedInv
        <3>2. QED
            BY <3>1
    <2>3. printed[i] = Line(roles, i)
        BY <1>1, <2>2 DEF PrintedInv
    <2>4. printed[i].Name = roles[i].Name
          /\ printed[i].Info = GetNodeStaticAnalysisInfo(roles, roles[i].Name)
        BY <2>3 DEF Line
    <2>5. roles[i] \in NodeRole
        <3>. HIDE DEF NodeRole
        <3>. QED  BY <2>1, <2>2
    <2>6. QED
        BY <2>1, <2>2, <2>4, <2>5, OwnInfo
<1>2. ASSUME NEW r \in NodeRole
      PROVE  /\ RoleInfo(r).NumAddresses = Len(r.Addresses)
             /\ RoleInfo(r).NumFiles <= Len(r.SourceCode)
             /\ RoleInfo(r).NetworkRatio.network \in 0..RoleInfo(r).NetworkRatio.calls
             /\ RoleInfo(r).NetworkRatio.calls = 0 <=>
                   \A j \in Parsed(r) : Calls[r.SourceCode[j].Path] = <<>>
    BY FilesBounded, RatioRight DEF RoleInfo
<1>3. StaticOK /\ PrintedInv => RolesRight
    BY <1>1, <1>2 DEF RolesRight
<1>4. QED
    BY StaticInit, StaticNext, <1>3, PTL DEF Spec

=============================================================================
