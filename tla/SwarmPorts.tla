----------------------------- MODULE SwarmPorts -----------------------------
(***************************************************************************)
(* replacePorts: every start of a node puts the caller's port into the     *)
(* swarm addresses of the repository's configuration.                      *)
(*                                                                         *)
(* An address is the sequence of its components, a port the sequence of    *)
(* its digits as written: the code takes the value of a component, which   *)
(* has no leading zeros, and replaces it in the text of the address, where *)
(* "/tcp/1" is found in "/tcp/12" as well.  Components that have no port   *)
(* have the protocol "other".                                              *)
(***************************************************************************)
EXTENDS Naturals, SequencesExt

CONSTANTS
  Lists,       \* the lists of addresses a repository may have
  Ports,       \* the ports a caller may ask for: written without leading zeros
  MaxDigits    \* a port with more digits is out of range (for 65535)

VARIABLES
  swarm,       \* Addresses.Swarm
  original,    \* the list the repository had in the beginning
  asked        \* the port of the last start that succeeded, <<>> before it

vars == <<swarm, original, asked>>

(* comp.Value(): the number, written anew.                                 *)
Value(text) ==
  IF \A i \in DOMAIN text : text[i] = 0 THEN <<0>>
  ELSE SubSeq(text, Min({i \in DOMAIN text : text[i] # 0}), Len(text))

(* The ports that may be written, and the components of an address.        *)
Digits     == Seq(0 .. 9)
Components == [proto : {"tcp", "udp", "other"}, port : Digits]

(* The caller's port is an unsigned int, written by strconv.FormatInt.     *)
ASSUME SwarmPortsAssumption ==
  /\ MaxDigits \in Nat \ {0}
  /\ Lists \subseteq Seq(Seq(Components))
  /\ \A port \in Ports : port \in Digits /\ port # <<>> /\ Value(port) = port

HasPort(comp) == comp.proto \in {"tcp", "udp"}

(* ma.NewMultiaddr succeeds.                                               *)
Parses(addr) ==
  \A i \in DOMAIN addr : HasPort(addr[i]) => Len(Value(addr[i].port)) <= MaxDigits

ReplaceAnywhere(addr, proto, what, with) ==
  [i \in DOMAIN addr |->
     IF HasPort(addr[i]) /\ IsPrefix(what, addr[i].port)
     THEN [addr[i] EXCEPT !.port = with \o SubSeq(@, Len(what) + 1, Len(@))]
     ELSE addr[i]]

(* strings.Replace(addr, prefix + what, prefix + with, -1)                 *)
Replace(addr, proto, what, with) ==
  [i \in DOMAIN addr |->
     IF addr[i].proto = proto /\ IsPrefix(what, addr[i].port)
     THEN [addr[i] EXCEPT !.port = with \o SubSeq(@, Len(what) + 1, Len(@))]
     ELSE addr[i]]

(* ma.ForEach runs over the components the address had when it was parsed. *)
ReplacePort(addr, proto, newPort) ==
  LET text[n \in 0 .. Len(addr)] ==
        IF n = 0 THEN addr
        ELSE IF addr[n].proto = proto
          THEN Replace(text[n - 1], proto, Value(addr[n].port), newPort)
          ELSE text[n - 1]
  IN  text[Len(addr)]

ReplaceTcp(addr, newPort)  == ReplacePort(addr, "tcp", newPort)
ReplaceBoth(addr, newPort) == ReplacePort(ReplaceTcp(addr, newPort), "udp", newPort)

AcceptedOnce(newPort) == \A i \in DOMAIN swarm : Parses(swarm[i])

(* Each of the two calls of replacePort parses the address it is given.    *)
Accepted(newPort) ==
  \A i \in DOMAIN swarm : Parses(swarm[i]) /\ Parses(ReplaceTcp(swarm[i], newPort))

Init ==
  /\ swarm \in Lists
  /\ original = swarm
  /\ asked = <<>>

(* A start that fails to adjust the ports returns before SetConfig.        *)
UpdateConfig(newPort) ==
  /\ Accepted(newPort)
  /\ swarm' = [i \in DOMAIN swarm |-> ReplaceBoth(swarm[i], newPort)]
  /\ asked' = newPort
  /\ UNCHANGED original

Next == \E newPort \in Ports : UpdateConfig(newPort)

Spec == Init /\ [][Next]_vars

-----------------------------------------------------------------------------
(* Properties.                                                             *)

(* The addresses replacePorts is made for: no protocol occurs twice, and   *)
(* no port is written with leading zeros.                                  *)
Plain(addr) ==
  \A i, j \in DOMAIN addr : HasPort(addr[i]) =>
    /\ addr[i].port = Value(addr[i].port)
    /\ addr[i].proto = addr[j].proto => i = j

(* What it should do.                                                      *)
Adjusted(addr, newPort) ==
  [i \in DOMAIN addr |-> IF HasPort(addr[i]) THEN [addr[i] EXCEPT !.port = newPort] ELSE addr[i]]

(* "Adjust Swarm port": however often a node has been started with         *)
(* whatever ports, a plain address has the port of the last start, in each *)
(* of its components that has one, and is otherwise what it was.           *)
PortsAdjusted ==
  asked # <<>> =>
    \A i \in DOMAIN original :
      Plain(original[i]) => swarm[i] = Adjusted(original[i], asked)

(* A port that is out of range does not spoil the repository: as long as   *)
(* there is a plain TCP address among plain ones, what is written can be   *)
(* parsed, and so the next start with a good port succeeds.                *)
StaysParsable ==
  /\ \A i \in DOMAIN original : Plain(original[i]) /\ Parses(original[i])
  /\ \E i \in DOMAIN original : \E j \in DOMAIN original[i] : original[i][j].proto = "tcp"
  => \A i \in DOMAIN swarm : Parses(swarm[i])

-----------------------------------------------------------------------------
(* The inductive invariant behind the properties above.                    *)

(* A plain address is the original one, with the port of the last start.   *)
SwarmInv ==
  /\ original \in Lists
  /\ asked \in Ports \cup {<<>>}
  /\ DOMAIN swarm = DOMAIN original
  /\ \A i \in DOMAIN original :
       Plain(original[i]) =>
         swarm[i] = IF asked = <<>> THEN original[i] ELSE Adjusted(original[i], asked)

HasTcp(addr) == \E j \in DOMAIN addr : addr[j].proto = "tcp"

(* A plain TCP address has the port parsed again before it is accepted.    *)
RangeInv ==
  /\ asked # <<>>
  /\ \E i \in DOMAIN original : Plain(original[i]) /\ HasTcp(original[i])
  => Len(Value(asked)) <= MaxDigits

PInv == SwarmInv /\ RangeInv
=============================================================================
