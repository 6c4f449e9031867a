----------------------------- MODULE NetCapture -----------------------------
(***************************************************************************)
(* The packet capture (compositions/compositions.go) as netcapture.go runs *)
(* it: the main goroutine starts ProcessPackets, sleeps, stops it over an  *)
(* unbuffered channel, closes the handle and reads Stats, which nothing    *)
(* guards but that channel.  The goroutine of gopacket that reads packets  *)
(* from the handle into a buffered channel is external.  Before that, main *)
(* prints the figures of the node roles if it is asked for the static      *)
(* analysis (NodeRoles).                                                   *)
(*                                                                         *)
(* A packet is the pair of the node strings ("ip:port") processPacket      *)
(* makes of it; a packet that is not IPv4 or TCP has empty parts in them.  *)
(* The default case of the select changes nothing and is a stuttering step.*)
(***************************************************************************)
EXTENDS NodeRoles

CONSTANTS Nodes,         \* node strings
          QueueLen,      \* capacity of the packet channel
          MaxPackets     \* bound: packets that are read from the device

ASSUME CaptureAssumption ==
    QueueLen \in Nat \ {0} /\ MaxPackets \in Nat /\ Nodes # {}

VARIABLES
    flags,    \* -static and -dynamic
    roles,    \* nr.R
    printed,  \* the names and figures of roles printed so far
    mpc,      \* the main goroutine
    ppc,      \* ProcessPackets
    reader,   \* gopacket's goroutine: "off", "reading", or "eof" once it has
              \* closed its channel
    handle,   \* is the pcap handle open?
    queue,    \* the packet channel
    packet,   \* the packet in processPacket
    Stats,    \* map[string]NodeStats
    arrived,  \* number of packets so far
    done      \* history: the packets processPacket has finished with

static == <<flags, roles, printed>>
vars == <<static, mpc, ppc, reader, handle, queue, packet, Stats, arrived, done>>

Packets == [src : Nodes, dst : Nodes]

Alive == ppc # "panicked"

-----------------------------------------------------------------------------
(* The main goroutine: the static analysis.                                *)

capture == <<ppc, reader, handle, queue, packet, Stats, arrived, done>>

\* log.Fatal without a flag.
ReadFlags ==
    /\ mpc = "flags"
    /\ mpc' = IF flags.static THEN "roles" ELSE IF flags.dynamic THEN "initialize" ELSE "done"
    /\ UNCHANGED <<static, capture>>

\* The error of json.Unmarshal is dropped: a file that is not JSON is one
\* without roles.
InitializeNodeRoles ==
    /\ mpc = "roles"
    /\ roles' \in {RoleFile, <<>>}
    /\ mpc' = "printRole"
    /\ UNCHANGED <<flags, printed, capture>>

\* The file cannot be read: log.Fatal.
InitializeNodeRolesFails ==
    /\ mpc = "roles"
    /\ mpc' = "done"
    /\ UNCHANGED <<static, capture>>

PrintRole ==
    /\ mpc = "printRole"
    /\ Len(printed) < Len(roles)
    /\ LET name == roles[Len(printed) + 1].Name
       IN  printed' = Append(printed, [Name |-> name, Info |-> GetNodeStaticAnalysisInfo(roles, name)])
    /\ UNCHANGED <<flags, roles, mpc, capture>>

AllRolesPrinted ==
    /\ mpc = "printRole"
    /\ Len(printed) = Len(roles)
    /\ mpc' = IF flags.dynamic THEN "initialize" ELSE "done"
    /\ UNCHANGED <<static, capture>>

-----------------------------------------------------------------------------
(* The main goroutine: the dynamic analysis.                               *)

InitializeCapture ==
    /\ mpc = "initialize"
    /\ handle' = TRUE
    /\ mpc' = "start"
    /\ UNCHANGED <<static, ppc, reader, queue, packet, Stats, arrived, done>>

\* No configuration or no device: log.Fatal.
InitializeFails ==
    /\ mpc = "initialize"
    /\ mpc' = "done"
    /\ UNCHANGED <<static, ppc, reader, handle, queue, packet, Stats, arrived, done>>

StartCapture ==
    /\ mpc = "start"
    /\ ppc' = "open"
    /\ mpc' = "sleep"
    /\ UNCHANGED <<static, reader, handle, queue, packet, Stats, arrived, done>>

SleepEnds ==
    /\ mpc = "sleep"
    /\ mpc' = "stop"
    /\ UNCHANGED <<static, ppc, reader, handle, queue, packet, Stats, arrived, done>>

\* The second half of StopCapture, after its send (FinishCapture).
CloseHandle ==
    /\ mpc = "close"
    /\ handle' = FALSE
    /\ mpc' = "print"
    /\ UNCHANGED <<static, ppc, reader, queue, packet, Stats, arrived, done>>

PrintStats ==
    /\ mpc = "print"
    /\ mpc' = "done"
    /\ UNCHANGED <<static, ppc, reader, handle, queue, packet, Stats, arrived, done>>

-----------------------------------------------------------------------------
(* ProcessPackets.                                                         *)

\* packetSource.Packets() starts the reader.
OpenSource ==
    /\ ppc = "open"
    /\ reader' = "reading"
    /\ ppc' = "select"
    /\ UNCHANGED <<static, mpc, handle, queue, packet, Stats, arrived, done>>

\* StopCapture does not wait for the loop, and goes on to close the handle.
FinishWithoutWaiting ==
    /\ mpc = "stop"
    /\ mpc' = "close"
    /\ UNCHANGED <<static, ppc, reader, handle, queue, packet, Stats, arrived, done>>

\* The goroutine never looks at the channel again once packets wait.
FinishIfIdle ==
    /\ mpc = "stop"
    /\ ppc = "select"
    /\ queue = <<>>
    /\ arrived = 0
    /\ mpc' = "close"
    /\ ppc' = "done"
    /\ UNCHANGED <<static, reader, handle, queue, packet, Stats, arrived, done>>

\* The send of StopCapture meets the first case of the select.
FinishCapture ==
    /\ mpc = "stop"
    /\ ppc = "select"
    /\ mpc' = "close"
    /\ ppc' = "done"
    /\ UNCHANGED <<static, reader, handle, queue, packet, Stats, arrived, done>>

ReceivePacket ==
    /\ ppc = "select"
    /\ queue # <<>>
    /\ packet' = Head(queue)
    /\ queue' = Tail(queue)
    /\ ppc' = "countSrc"
    /\ UNCHANGED <<static, mpc, reader, handle, Stats, arrived, done>>

\* The closed channel yields a nil packet: packet.Layer panics.
ReceiveNil ==
    /\ ppc = "select"
    /\ queue = <<>>
    /\ reader = "eof"
    /\ ppc' = "panicked"
    /\ UNCHANGED <<static, mpc, reader, handle, queue, packet, Stats, arrived, done>>

\* A new entry starts one too low.
NodeStatsLow(n) == IF n \in DOMAIN Stats THEN Stats[n] ELSE [SrcCount |-> -1, DstCount |-> -1]

\* Stats[n] with one more packet, or a new entry (NodeStats is a struct value:
\* it is read, changed and written back).
NodeStats(n) == IF n \in DOMAIN Stats THEN Stats[n] ELSE [SrcCount |-> 0, DstCount |-> 0]
Put(n, ns) == [m \in DOMAIN Stats \cup {n} |-> IF m = n THEN ns ELSE Stats[m]]

processPacketSrc ==
    /\ ppc = "countSrc"
    /\ Stats' = Put(packet.src, [NodeStats(packet.src) EXCEPT !.SrcCount = @ + 1])
    /\ ppc' = "countDst"
    /\ UNCHANGED <<static, mpc, reader, handle, queue, packet, arrived, done>>

\* A known node gets a new entry all the same.
processPacketDstAnew ==
    /\ ppc = "countDst"
    /\ Stats' = Put(packet.dst, [SrcCount |-> 0, DstCount |-> 1])
    /\ done' = Append(done, packet)
    /\ ppc' = "select"
    /\ UNCHANGED <<static, mpc, reader, handle, queue, packet, arrived>>

processPacketDst ==
    /\ ppc = "countDst"
    /\ Stats' = Put(packet.dst, [NodeStats(packet.dst) EXCEPT !.DstCount = @ + 1])
    /\ done' = Append(done, packet)
    /\ ppc' = "select"
    /\ UNCHANGED <<static, mpc, reader, handle, queue, packet, arrived>>

-----------------------------------------------------------------------------
(* gopacket.                                                               *)

ReadPacket ==
    /\ reader = "reading"
    /\ handle
    /\ arrived < MaxPackets
    /\ Len(queue) < QueueLen
    /\ arrived' = arrived + 1
    /\ \E p \in Packets : queue' = Append(queue, p)
    /\ UNCHANGED <<static, mpc, ppc, reader, handle, packet, Stats, done>>

\* The handle was closed, or the device is gone.
ReadEOF ==
    /\ reader = "reading"
    /\ reader' = "eof"
    /\ UNCHANGED <<static, mpc, ppc, handle, queue, packet, Stats, arrived, done>>

-----------------------------------------------------------------------------
Init ==
    /\ flags \in [static : BOOLEAN, dynamic : BOOLEAN]
    /\ roles = <<>>
    /\ printed = <<>>
    /\ mpc = "flags"
    /\ ppc = "off"
    /\ reader = "off"
    /\ handle = FALSE
    /\ queue = <<>>
    /\ packet = CHOOSE p \in Packets : TRUE
    /\ Stats = [n \in {} |-> 0]
    /\ arrived = 0
    /\ done = <<>>

StaticAnalysis ==
    \/ ReadFlags \/ InitializeNodeRoles \/ InitializeNodeRolesFails \/ PrintRole \/ AllRolesPrinted
Main ==
    \/ StaticAnalysis
    \/ InitializeCapture \/ InitializeFails \/ StartCapture \/ SleepEnds \/ CloseHandle \/ PrintStats
Process == OpenSource \/ FinishCapture \/ ReceivePacket \/ ReceiveNil \/ processPacketSrc \/ processPacketDst
Reader == ReadPacket \/ ReadEOF

\* The program has ended.
Halted ==
    /\ mpc = "done" \/ ~Alive
    /\ UNCHANGED vars

Next == (mpc # "done" /\ Alive /\ (Main \/ Process \/ Reader)) \/ Halted

Spec == Init /\ [][Next]_vars

\* The scheduler runs every goroutine that can go on.  Packets may stop coming
\* at any time, and the device need not fail.
FairSpec == Spec /\ WF_vars(Next /\ Main) /\ WF_vars(Next /\ Process)
-----------------------------------------------------------------------------
(* Properties.                                                             *)

TypeOK ==
    /\ flags \in [static : BOOLEAN, dynamic : BOOLEAN]
    /\ roles \in {RoleFile, <<>>}
    /\ Len(printed) <= Len(roles)
    /\ mpc \in {"flags", "roles", "printRole", "initialize", "start", "sleep", "stop", "close", "print", "done"}
    /\ ppc \in {"off", "open", "select", "countSrc", "countDst", "done", "panicked"}
    /\ reader \in {"off", "reading", "eof"}
    /\ handle \in BOOLEAN
    /\ queue \in Seq(Packets) /\ Len(queue) <= QueueLen
    /\ packet \in Packets
    /\ DOMAIN Stats \subseteq Nodes
    /\ \A n \in DOMAIN Stats : Stats[n] \in [SrcCount : Nat, DstCount : Nat]
    /\ arrived \in 0..MaxPackets
    /\ done \in Seq(Packets)

\* The figures printed for a role are its own unless an earlier role has its
\* name: its addresses, no more files than pieces, and calls exactly if a file
\* of it that can be parsed has some, the network calls among them
\* (GetNodeStaticAnalysisInfo, CalculateNetworkRatio and the loop of main).
RolesRight ==
    \A i \in DOMAIN printed :
        LET r == roles[i]
            info == printed[i].Info
        IN  /\ printed[i].Name = r.Name
            /\ (\A j \in 1..(i - 1) : roles[j].Name # r.Name) =>
                  /\ info.NumAddresses = Len(r.Addresses)
                  /\ info.NumFiles <= Len(r.SourceCode)
                  /\ info.NetworkRatio.network \in 0..info.NetworkRatio.calls
                  /\ info.NetworkRatio.calls = 0 <=>
                        \A j \in Parsed(r) : Calls[r.SourceCode[j].Path] = <<>>

\* Stats, read without a lock after StopCapture, is not written any more from
\* the moment the stop message was taken: no packet still in the channel is
\* counted while the map is printed (StopCapture, ProcessPackets).
StatsFrozen == [][(mpc \in {"close", "print", "done"}) => UNCHANGED Stats]_vars

\* Between two packets every node has been counted once for each packet it
\* sent and once for each it received, a packet from a node to itself included
\* (processPacket).
CountsExact ==
    ppc \in {"select", "done"} =>
        \A n \in Nodes :
            NodeStats(n) = [SrcCount |-> Cardinality({i \in DOMAIN done : done[i].src = n}),
                            DstCount |-> Cardinality({i \in DOMAIN done : done[i].dst = n})]

\* StopCapture returns and the statistics are printed, whatever the capture is
\* in the middle of when the stop message comes, unless it panicked on a closed
\* packet channel (StopCapture, ProcessPackets).
StopReturns == (mpc = "stop") ~> (mpc = "done" \/ ~Alive)
=============================================================================
