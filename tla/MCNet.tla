------------------------------- MODULE MCNet -------------------------------
(***************************************************************************)
(* The parts around the network stack for TLC: buffer chains, reassembly,  *)
(* ARP, DHCP, the network task, pipes and the TFTP server.  They do not    *)
(* share state in the model, so one part runs in each behaviour, and the   *)
(* others stay as they were initialised.                                   *)
(***************************************************************************)
EXTENDS FsBuffer, Ipv4Frag, Arp, Dhcp, MCNetTask, Pipe, Tftp

CONSTANTS b1, b2, b3, l1, l2, t1, d1, d2, d3, h1, h2, h3, v1, v2, r1, w1

VARIABLE part   \* the part that runs

(* No wait, as the network task; a wait, as fs_puts; a wait that keeps the *)
(* threshold, as udp_write and tcp_write.                                  *)
Callers == {[suspend |-> FALSE, th |-> FALSE], [suspend |-> TRUE, th |-> FALSE],
            [suspend |-> TRUE, th |-> TRUE]}

BufferSymmetry == Permutations(Buffers) \cup Permutations(Lists)

(* Datagrams of four, two and one fragments.                               *)
Lengths == d1 :> 4 @@ d2 :> 2 @@ d3 :> 1

(* A part that does not run has one initial state.  The order of the ports *)
(* is one of two that differ in the names of the ports only.               *)
NetInit ==
  /\ part \in {"buffers", "reassembly", "arp", "dhcp", "task", "pipe", "tftp"}
  /\ Init /\ FragInit /\ ArpInit /\ DhcpInit /\ NetTaskInit /\ PipeInit /\ TftpInit
  /\ part # "task" => duty.register = Ports
  /\ net_array # <<BUFFERS, WORK, p2, p1>>
  /\ part # "pipe" => pipe_size = Min(PipeSizes)

BufferStep == part = "buffers" /\ Next
  /\ UNCHANGED <<part, fragVars, arpVars, dhcpVars, netTaskVars, pipeVars, tftpVars>>
FragStep == part = "reassembly" /\ FragNext
  /\ UNCHANGED <<part, vars, arpVars, dhcpVars, netTaskVars, pipeVars, tftpVars>>
ArpStep == part = "arp" /\ ArpNext
  /\ UNCHANGED <<part, vars, fragVars, dhcpVars, netTaskVars, pipeVars, tftpVars>>
DhcpStep == part = "dhcp" /\ DhcpNext
  /\ UNCHANGED <<part, vars, fragVars, arpVars, netTaskVars, pipeVars, tftpVars>>
TaskStep == part = "task" /\ NetTaskNext
  /\ UNCHANGED <<part, vars, fragVars, arpVars, dhcpVars, pipeVars, tftpVars>>
PipeStep == part = "pipe" /\ PipeNext
  /\ UNCHANGED <<part, vars, fragVars, arpVars, dhcpVars, netTaskVars, tftpVars>>
TftpStep == part = "tftp" /\ TftpNext
  /\ UNCHANGED <<part, vars, fragVars, arpVars, dhcpVars, netTaskVars, pipeVars>>

NetNext ==
  BufferStep \/ FragStep \/ ArpStep \/ DhcpStep \/ TaskStep \/ PipeStep \/ TftpStep
netVars == <<vars, fragVars, arpVars, dhcpVars, netTaskVars, pipeVars, tftpVars, part>>
NetSpec == NetInit /\ [][NetNext]_netVars
============================================================================
