------------------------------- MODULE IcmpProbe -------------------------------
(***************************************************************************)
(* Echo requests over raw sockets (app/modules/connection_monitor/         *)
(* probe.py): the probes of a batch run in parallel, count their requests  *)
(* in one attribute of the engine, and every raw socket is handed every    *)
(* reply that reaches the machine.  A number is taken in one step (no call *)
(* and no loop in that statement, so the interpreter does not switch       *)
(* threads), but it is read again to build the packet and to compare a     *)
(* reply.                                                                  *)
(***************************************************************************)
EXTENDS Naturals, FiniteSets

CONSTANTS
  Hosts,
  SeqSpace,     \* numbers go modulo 2^16
  MaxBatches    \* bound

\* A reply does not outlive all numbers.
ASSUME ProbeAssumption ==
  /\ MaxBatches \in Nat /\ SeqSpace \in Nat /\ IsFiniteSet(Hosts)
  /\ SeqSpace > MaxBatches * Cardinality(Hosts)

VARIABLES
  seq,          \* self._seq
  batchNo, probed,    \* the batch and its hosts
  stage,        \* how far each probe is: "none", "open", "numbered", "waiting", "up", "down"
  requests,     \* on their way, or being answered
  received,     \* replies that a probe's socket holds
  answer        \* of each probe that is up: the reply it took for its own

probeVars == <<seq, batchNo, probed, stage, requests, received, answer>>

Packets == [host : Hosts, number : 0..(SeqSpace - 1), batch : 1..MaxBatches]

ProbeInit ==
  /\ seq = 0 /\ batchNo = 0 /\ probed = {}
  /\ stage = [h \in Hosts |-> "none"] /\ requests = {}
  /\ received = [h \in Hosts |-> {}] /\ answer = {}

\* The executor of a batch ends with its last probe.
BeginBatch(S) ==
  /\ batchNo < MaxBatches /\ batchNo' = batchNo + 1
  /\ \A h \in Hosts : stage[h] \in {"none", "up", "down"}
  /\ probed' = S /\ stage' = [h \in Hosts |-> "none"]
  /\ received' = [h \in Hosts |-> {}] /\ answer' = {}
  /\ UNCHANGED <<seq, requests>>

OpenSocket(h) ==
  /\ h \in probed /\ stage[h] = "none"
  /\ stage' = [stage EXCEPT ![h] = "open"]
  /\ UNCHANGED <<seq, batchNo, probed, requests, received, answer>>

\* Mutant of TakeNumber: every batch counts from the start.
TakeNumberOfBatch(h) ==
  /\ stage[h] = "open"
  /\ stage' = [stage EXCEPT ![h] = "numbered"]
  /\ seq' = Cardinality({k \in Hosts : stage[k] \notin {"none", "open"}}) + 1
  /\ UNCHANGED <<batchNo, probed, requests, received, answer>>

TakeNumber(h) ==
  /\ stage[h] = "open"
  /\ stage' = [stage EXCEPT ![h] = "numbered"]
  /\ seq' = (seq + 1) % SeqSpace
  /\ UNCHANGED <<batchNo, probed, requests, received, answer>>

Send(h) ==
  /\ stage[h] = "numbered"
  /\ stage' = [stage EXCEPT ![h] = "waiting"]
  /\ requests' = requests \cup {[host |-> h, number |-> seq, batch |-> batchNo]}
  /\ UNCHANGED <<seq, batchNo, probed, received, answer>>

Lose(q) ==
  /\ q \in requests /\ requests' = requests \ {q}
  /\ UNCHANGED <<seq, batchNo, probed, stage, received, answer>>

\* A reply comes in, at every open socket.
Reply(q) ==
  /\ q \in requests /\ requests' = requests \ {q}
  /\ received' = [h \in Hosts |-> IF stage[h] \in {"open", "numbered", "waiting"} THEN received[h] \cup {q} ELSE received[h]]
  /\ UNCHANGED <<seq, batchNo, probed, stage, answer>>

\* recvfrom, and the comparison with the number as it is now.
Receive(h, q) ==
  /\ stage[h] = "waiting" /\ q \in received[h]
  /\ received' = [received EXCEPT ![h] = @ \ {q}]
  /\ IF q.number = seq
       THEN stage' = [stage EXCEPT ![h] = "up"] /\ answer' = answer \cup {[probe |-> h, packet |-> q]}
       ELSE UNCHANGED <<stage, answer>>
  /\ UNCHANGED <<seq, batchNo, probed, requests>>

TimeOut(h) ==
  /\ stage[h] = "waiting"
  /\ stage' = [stage EXCEPT ![h] = "down"]
  /\ UNCHANGED <<seq, batchNo, probed, requests, received, answer>>

ProbeNext ==
  \/ \E S \in SUBSET Hosts \ {{}} : BeginBatch(S)
  \/ \E h \in Hosts : OpenSocket(h) \/ TakeNumber(h) \/ Send(h) \/ TimeOut(h) \/ \E q \in received[h] : Receive(h, q)
  \/ \E q \in requests : Lose(q) \/ Reply(q)

ProbeSpec == ProbeInit /\ [][ProbeNext]_probeVars

\* A probe is answered by a reply to a request of its own batch, whatever comes late
\* from earlier ones; probed alone, a host is up only if it answered itself.
AnswersAreOfTheBatch ==
  \A a \in answer :
    /\ a.packet.batch = batchNo
    /\ Cardinality(probed) = 1 => a.packet.host = a.probe

\* "Send ICMP/ICMPv6 echo request and measure round-trip time", of this host.
AnswersAreOwn == \A a \in answer : a.packet.host = a.probe
=============================================================================
