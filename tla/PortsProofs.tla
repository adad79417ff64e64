---------------------------- MODULE PortsProofs ----------------------------
(***************************************************************************)
(* replacePorts, for every list of addresses, every sequence of starts and *)
(* every range of ports.  What the loop over the components computes is    *)
(* shown by exhibiting the function that satisfies its recursive equation; *)
(* that there is only one follows from the least-number principle.         *)
(***************************************************************************)
EXTENDS SwarmPorts, WellFoundedInduction, TLAPS

(* A set of naturals that is not empty has a least element.                *)
LEMMA LeastNatural ==
  ASSUME NEW T \in SUBSET Nat, T # {}
  PROVE  \E m \in T : \A k \in T : ~(k < m)
<1>1. IsWellFoundedOn(OpToRel(<, Nat), Nat)
  BY NatLessThanWellFounded
<1>2. \E m \in T : \A k \in T : ~(<<k, m>> \in OpToRel(<, Nat))
  BY <1>1, WFMin
<1>3. \A m, k \in Nat : k < m => <<k, m>> \in OpToRel(<, Nat)
  BY DEF OpToRel
<1> QED BY <1>2, <1>3

-----------------------------------------------------------------------------
(* The loop of replacePort.                                                *)

(* What one component makes of the text so far.                            *)
Step(addr, proto, newPort, n, sofar) ==
  IF addr[n].proto = proto THEN Replace(sofar, proto, Value(addr[n].port), newPort) ELSE sofar

(* text is the texts after none, one, two, ... of the components.          *)
IsLoop(addr, proto, newPort, text) ==
  text = [n \in 0 .. Len(addr) |->
            IF n = 0 THEN addr
            ELSE IF addr[n].proto = proto
              THEN Replace(text[n - 1], proto, Value(addr[n].port), newPort)
              ELSE text[n - 1]]

LEMMA LoopDef ==
  ASSUME NEW addr, NEW proto, NEW newPort
  PROVE  ReplacePort(addr, proto, newPort)
           = (CHOOSE text : IsLoop(addr, proto, newPort, text))[Len(addr)]
  BY DEF ReplacePort, IsLoop

LEMMA LoopUnique ==
  ASSUME NEW addr \in Seq(Components), NEW proto, NEW newPort, NEW f, NEW g,
         IsLoop(addr, proto, newPort, f), IsLoop(addr, proto, newPort, g)
  PROVE  f = g
<1> DEFINE T == {n \in 0 .. Len(addr) : f[n] # g[n]}
<1>1. Len(addr) \in Nat
  OBVIOUS
<1>2. DOMAIN f = 0 .. Len(addr) /\ DOMAIN g = 0 .. Len(addr)
  BY DEF IsLoop
<1>3. ASSUME NEW n \in 0 .. Len(addr)
      PROVE  /\ n = 0 => f[n] = addr /\ g[n] = addr
             /\ n # 0 => /\ f[n] = Step(addr, proto, newPort, n, f[n - 1])
                         /\ g[n] = Step(addr, proto, newPort, n, g[n - 1])
  BY DEF IsLoop, Step
<1>4. T = {}
  <2> SUFFICES ASSUME T # {} PROVE FALSE
    OBVIOUS
  <2>1. T \in SUBSET Nat
    BY <1>1
  <2>2. PICK m \in T : \A k \in T : ~(k < m)
    BY <2>1, LeastNatural
  <2>3. m \in 0 .. Len(addr) /\ f[m] # g[m]
    OBVIOUS
  <2>4. m # 0
    BY <1>3, <2>3
  <2>5. m - 1 \in 0 .. Len(addr) /\ m - 1 < m
    BY <1>1, <2>3, <2>4
  <2>6. f[m - 1] = g[m - 1]
    BY <2>2, <2>5
  <2> QED BY <1>3, <2>3, <2>4, <2>6
<1>5. f = [n \in 0 .. Len(addr) |-> f[n]] /\ g = [n \in 0 .. Len(addr) |-> g[n]]
  BY <1>2 DEF IsLoop
<1> QED BY <1>4, <1>5

(* So the loop computes what any solution of its equation says.            *)
LEMMA LoopValue ==
  ASSUME NEW addr \in Seq(Components), NEW proto, NEW newPort, NEW f,
         IsLoop(addr, proto, newPort, f)
  PROVE  ReplacePort(addr, proto, newPort) = f[Len(addr)]
<1>1. IsLoop(addr, proto, newPort, CHOOSE text : IsLoop(addr, proto, newPort, text))
  OBVIOUS
<1>2. (CHOOSE text : IsLoop(addr, proto, newPort, text)) = f
  BY <1>1, LoopUnique
<1> QED BY <1>2, LoopDef

-----------------------------------------------------------------------------
(* Plain addresses.                                                        *)

WithPort(comp, newPort) == [comp EXCEPT !.port = newPort]

(* The address after its first n components were looked at.                *)
AdjustedTo(addr, proto, newPort, n) ==
  [i \in DOMAIN addr |->
     IF i <= n /\ addr[i].proto = proto THEN WithPort(addr[i], newPort) ELSE addr[i]]

(* At most one component has the protocol, and its port is as parsed.      *)
PlainFor(addr, proto) ==
  \A i, j \in DOMAIN addr : addr[i].proto = proto =>
    addr[i].port = Value(addr[i].port) /\ (addr[j].proto = proto => i = j)

(* Replacing the whole of a port.                                          *)
LEMMA ReplaceWhole ==
  ASSUME NEW port \in Digits, NEW newPort \in Digits
  PROVE  IsPrefix(port, port) /\ newPort \o SubSeq(port, Len(port) + 1, Len(port)) = newPort
<1>1. Len(port) \in Nat /\ SubSeq(port, Len(port) + 1, Len(port)) = <<>>
  BY DEF Digits
<1>2. IsPrefix(port, port)
  BY <1>1 DEF IsPrefix
<1>3. newPort \o <<>> = newPort
  BY DEF Digits
<1> QED BY <1>1, <1>2, <1>3

LEMMA AdjustedToLoop ==
  ASSUME NEW addr \in Seq(Components), NEW proto \in {"tcp", "udp"}, NEW newPort \in Digits,
         PlainFor(addr, proto)
  PROVE  IsLoop(addr, proto, newPort,
                [n \in 0 .. Len(addr) |-> AdjustedTo(addr, proto, newPort, n)])
<1> DEFINE F == [n \in 0 .. Len(addr) |-> AdjustedTo(addr, proto, newPort, n)]
<1>1. Len(addr) \in Nat /\ DOMAIN addr = 1 .. Len(addr)
      /\ \A i \in DOMAIN addr : addr[i] \in Components
  OBVIOUS
<1>2. F[0] = addr
  <2>1. \A i \in DOMAIN addr : ~(i <= 0)
    BY <1>1
  <2> QED BY <1>1, <2>1 DEF AdjustedTo
<1>3. ASSUME NEW n \in 0 .. Len(addr), n # 0
      PROVE  F[n] = IF addr[n].proto = proto
                    THEN Replace(F[n - 1], proto, Value(addr[n].port), newPort)
                    ELSE F[n - 1]
  <2>1. n \in DOMAIN addr /\ n - 1 \in 0 .. Len(addr)
    BY <1>1, <1>3
  <2>2. \A i \in DOMAIN addr : i <= n <=> i <= n - 1 \/ i = n
    BY <1>1, <1>3
  <2>3. CASE addr[n].proto # proto
    BY <2>1, <2>2, <2>3 DEF AdjustedTo
  <2>4. CASE addr[n].proto = proto
    <3>1. \A i \in DOMAIN addr : addr[i].proto = proto <=> i = n
      BY <2>1, <2>4 DEF PlainFor
    <3>2. ~(n <= n - 1)
      BY <1>1, <1>3
    <3>3. F[n - 1] = addr
      BY <1>1, <2>1, <3>1, <3>2 DEF AdjustedTo
    <3>4. Value(addr[n].port) = addr[n].port /\ addr[n].port \in Digits
      BY <1>1, <2>1, <2>4 DEF PlainFor, Components
    <3>5. Replace(addr, proto, addr[n].port, newPort)
            = [i \in DOMAIN addr |-> IF i = n THEN WithPort(addr[n], newPort) ELSE addr[i]]
      <4>1. ASSUME NEW i \in DOMAIN addr
            PROVE  (IF addr[i].proto = proto /\ IsPrefix(addr[n].port, addr[i].port)
                    THEN [addr[i] EXCEPT !.port = newPort \o SubSeq(@, Len(addr[n].port) + 1, Len(@))]
                    ELSE addr[i])
                   = IF i = n THEN WithPort(addr[n], newPort) ELSE addr[i]
        <5>1. CASE i # n
          BY <3>1, <5>1
        <5>2. CASE i = n
          BY <3>1, <3>4, <5>2, ReplaceWhole DEF WithPort
        <5> QED BY <5>1, <5>2
      <4> QED BY <4>1 DEF Replace
    <3>6. F[n] = [i \in DOMAIN addr |-> IF i = n THEN WithPort(addr[n], newPort) ELSE addr[i]]
      BY <2>1, <2>2, <3>1 DEF AdjustedTo
    <3> QED BY <2>4, <3>3, <3>4, <3>5, <3>6
  <2> QED BY <2>3, <2>4
<1>4. F = [n \in 0 .. Len(addr) |->
             IF n = 0 THEN addr
             ELSE IF addr[n].proto = proto
               THEN Replace(F[n - 1], proto, Value(addr[n].port), newPort)
               ELSE F[n - 1]]
  <2> HIDE DEF F
  <2>1. DOMAIN F = 0 .. Len(addr) /\ F = [n \in 0 .. Len(addr) |-> F[n]]
    BY DEF F
  <2> QED BY <1>2, <1>3, <2>1
<1> QED BY <1>4 DEF IsLoop

(* One call of replacePort puts the port into the components of a protocol.*)
LEMMA ReplacePortPlain ==
  ASSUME NEW addr \in Seq(Components), NEW proto \in {"tcp", "udp"}, NEW newPort \in Digits,
         PlainFor(addr, proto)
  PROVE  ReplacePort(addr, proto, newPort)
           = [i \in DOMAIN addr |-> IF addr[i].proto = proto THEN WithPort(addr[i], newPort) ELSE addr[i]]
<1>1. Len(addr) \in Nat /\ DOMAIN addr = 1 .. Len(addr)
  OBVIOUS
<1>2. ReplacePort(addr, proto, newPort) = AdjustedTo(addr, proto, newPort, Len(addr))
  <2> DEFINE F == [n \in 0 .. Len(addr) |-> AdjustedTo(addr, proto, newPort, n)]
  <2>1. IsLoop(addr, proto, newPort, F)
    BY AdjustedToLoop
  <2>2. F[Len(addr)] = AdjustedTo(addr, proto, newPort, Len(addr))
    BY <1>1
  <2> HIDE DEF F
  <2>3. ReplacePort(addr, proto, newPort) = F[Len(addr)]
    BY <2>1, LoopValue
  <2> QED BY <2>2, <2>3
<1>3. \A i \in DOMAIN addr : i <= Len(addr)
  BY <1>1
<1> QED BY <1>2, <1>3 DEF AdjustedTo

(* Putting a port in keeps the shape of an address.                        *)
LEMMA WithPortFacts ==
  ASSUME NEW comp \in Components, NEW newPort \in Digits
  PROVE  /\ WithPort(comp, newPort) \in Components
         /\ WithPort(comp, newPort).proto = comp.proto
         /\ WithPort(comp, newPort).port = newPort
         /\ \A port \in Digits : WithPort(WithPort(comp, port), newPort) = WithPort(comp, newPort)
  BY DEF WithPort, Components

LEMMA PlainParts ==
  ASSUME NEW addr \in Seq(Components)
  PROVE  Plain(addr) <=> PlainFor(addr, "tcp") /\ PlainFor(addr, "udp")
  BY DEF Plain, PlainFor, HasPort

LEMMA PlainTcp ==
  ASSUME NEW addr \in Seq(Components), NEW newPort \in Digits, Plain(addr)
  PROVE  ReplaceTcp(addr, newPort)
           = [i \in DOMAIN addr |-> IF addr[i].proto = "tcp" THEN WithPort(addr[i], newPort) ELSE addr[i]]
  BY PlainParts, ReplacePortPlain DEF ReplaceTcp

(* The two calls of replacePort adjust a plain address.                    *)
LEMMA PlainBoth ==
  ASSUME NEW addr \in Seq(Components), NEW newPort \in Digits, Plain(addr)
  PROVE  ReplaceBoth(addr, newPort) = Adjusted(addr, newPort)
<1> DEFINE tcp == ReplaceTcp(addr, newPort)
<1>1. Len(addr) \in Nat /\ DOMAIN addr = 1 .. Len(addr)
      /\ \A i \in DOMAIN addr : addr[i] \in Components
  OBVIOUS
<1>2. tcp = [i \in DOMAIN addr |-> IF addr[i].proto = "tcp" THEN WithPort(addr[i], newPort) ELSE addr[i]]
  BY PlainTcp
<1> HIDE DEF tcp
<1>3. ASSUME NEW i \in DOMAIN addr
      PROVE  tcp[i] \in Components /\ tcp[i].proto = addr[i].proto
             /\ (addr[i].proto = "udp" => tcp[i] = addr[i])
  BY <1>1, <1>2, WithPortFacts
<1>4. tcp \in Seq(Components) /\ DOMAIN tcp = DOMAIN addr
  <2>1. tcp = [i \in 1 .. Len(addr) |-> tcp[i]]
    BY <1>1, <1>2
  <2> QED BY <1>1, <1>3, <2>1
<1>5. PlainFor(tcp, "udp")
  BY <1>3, <1>4, PlainParts DEF PlainFor
<1>6. ReplacePort(tcp, "udp", newPort)
        = [i \in DOMAIN addr |-> IF tcp[i].proto = "udp" THEN WithPort(tcp[i], newPort) ELSE tcp[i]]
  BY <1>4, <1>5, ReplacePortPlain
<1>7. ASSUME NEW i \in DOMAIN addr
      PROVE  (IF tcp[i].proto = "udp" THEN WithPort(tcp[i], newPort) ELSE tcp[i])
               = IF HasPort(addr[i]) THEN WithPort(addr[i], newPort) ELSE addr[i]
  <2>1. addr[i].proto \in {"tcp", "udp", "other"}
    BY <1>1 DEF Components
  <2> QED BY <1>2, <1>3, <2>1 DEF HasPort
<1> QED BY <1>6, <1>7 DEF ReplaceBoth, Adjusted, WithPort, tcp

LEMMA AdjustedFacts ==
  ASSUME NEW addr \in Seq(Components), NEW port \in Ports, Plain(addr)
  PROVE  /\ Adjusted(addr, port) \in Seq(Components)
         /\ DOMAIN Adjusted(addr, port) = DOMAIN addr
         /\ Plain(Adjusted(addr, port))
         /\ \A newPort \in Ports : Adjusted(Adjusted(addr, port), newPort) = Adjusted(addr, newPort)
<1> DEFINE adjusted == Adjusted(addr, port)
<1>1. Len(addr) \in Nat /\ DOMAIN addr = 1 .. Len(addr)
      /\ \A i \in DOMAIN addr : addr[i] \in Components
  OBVIOUS
<1>2. Value(port) = port /\ \A p \in Ports : p \in Digits
  BY SwarmPortsAssumption
<1>3. adjusted = [i \in DOMAIN addr |-> IF HasPort(addr[i]) THEN WithPort(addr[i], port) ELSE addr[i]]
  BY DEF Adjusted, WithPort
<1> HIDE DEF adjusted
<1>4. ASSUME NEW i \in DOMAIN addr
      PROVE  /\ adjusted[i] \in Components /\ adjusted[i].proto = addr[i].proto
             /\ HasPort(addr[i]) => adjusted[i].port = port
  BY <1>1, <1>2, <1>3, WithPortFacts
<1>5. adjusted \in Seq(Components) /\ DOMAIN adjusted = DOMAIN addr
  <2>1. adjusted = [i \in 1 .. Len(addr) |-> adjusted[i]]
    BY <1>1, <1>3
  <2> QED BY <1>1, <1>3, <1>4, <2>1
<1>6. Plain(adjusted)
  BY <1>2, <1>4, <1>5 DEF Plain, HasPort
<1>7. ASSUME NEW newPort \in Ports PROVE Adjusted(adjusted, newPort) = Adjusted(addr, newPort)
  <2>1. ASSUME NEW i \in DOMAIN addr
        PROVE  (IF HasPort(adjusted[i]) THEN WithPort(adjusted[i], newPort) ELSE adjusted[i])
                 = IF HasPort(addr[i]) THEN WithPort(addr[i], newPort) ELSE addr[i]
    <3>1. HasPort(adjusted[i]) <=> HasPort(addr[i])
      BY <1>4 DEF HasPort
    <3>2. WithPort(WithPort(addr[i], port), newPort) = WithPort(addr[i], newPort)
      BY <1>1, <1>2, WithPortFacts
    <3> QED BY <1>3, <3>1, <3>2
  <2> QED BY <1>5, <2>1 DEF Adjusted, WithPort
<1> QED BY <1>5, <1>6, <1>7 DEF adjusted

-----------------------------------------------------------------------------
(* The starts.                                                             *)

(* What the invariant says of a plain address.                             *)
LEMMA PlainNow ==
  ASSUME SwarmInv, NEW i \in DOMAIN original, Plain(original[i])
  PROVE  /\ original[i] \in Seq(Components) /\ swarm[i] \in Seq(Components) /\ Plain(swarm[i])
         /\ \A newPort \in Ports : Adjusted(swarm[i], newPort) = Adjusted(original[i], newPort)
<1>1. original[i] \in Seq(Components)
  BY SwarmPortsAssumption DEF SwarmInv
<1>2. CASE asked = <<>>
  BY <1>1, <1>2 DEF SwarmInv
<1>3. CASE asked # <<>>
  <2>1. asked \in Ports /\ swarm[i] = Adjusted(original[i], asked)
    BY <1>3 DEF SwarmInv
  <2> QED BY <1>1, <2>1, AdjustedFacts
<1> QED BY <1>2, <1>3

LEMMA NextSwarmInv ==
  ASSUME SwarmInv, NEW newPort \in Ports, UpdateConfig(newPort)
  PROVE  SwarmInv'
<1>1. /\ asked' = newPort /\ original' = original
      /\ swarm' = [i \in DOMAIN swarm |-> ReplaceBoth(swarm[i], newPort)]
  BY DEF UpdateConfig
<1>2. newPort \in Digits /\ newPort # <<>>
  BY SwarmPortsAssumption
<1>3. ASSUME NEW i \in DOMAIN original, Plain(original[i])
      PROVE  swarm'[i] = Adjusted(original[i], newPort)
  <2>1. swarm'[i] = ReplaceBoth(swarm[i], newPort)
    BY <1>1 DEF SwarmInv
  <2> QED BY <1>2, <1>3, <2>1, PlainNow, PlainBoth
<1> QED BY <1>1, <1>2, <1>3 DEF SwarmInv

(* A port that was put into a TCP component was parsed.                    *)
LEMMA NextRangeInv ==
  ASSUME SwarmInv, NEW newPort \in Ports, UpdateConfig(newPort)
  PROVE  RangeInv'
<1>1. asked' = newPort /\ original' = original /\ Accepted(newPort)
  BY DEF UpdateConfig
<1>2. ASSUME NEW i \in DOMAIN original, Plain(original[i]),
             NEW j \in DOMAIN original[i], original[i][j].proto = "tcp"
      PROVE  Len(Value(newPort)) <= MaxDigits
  <2>1. newPort \in Digits
    BY SwarmPortsAssumption
  <2>2. DOMAIN swarm[i] = DOMAIN original[i] /\ swarm[i][j].proto = "tcp"
        /\ swarm[i][j] \in Components
    <3>1. original[i] \in Seq(Components) /\ swarm[i] \in Seq(Components)
      BY <1>2, PlainNow
    <3>2. CASE asked = <<>>
      BY <1>2, <3>1, <3>2 DEF SwarmInv
    <3>3. CASE asked # <<>>
      <4>1. asked \in Digits /\ swarm[i] = Adjusted(original[i], asked)
        BY <1>2, <3>3, SwarmPortsAssumption DEF SwarmInv
      <4>2. swarm[i] = [k \in DOMAIN original[i] |-> IF HasPort(original[i][k])
                          THEN WithPort(original[i][k], asked) ELSE original[i][k]]
        BY <4>1 DEF Adjusted, WithPort
      <4>3. original[i][j] \in Components
        BY <3>1
      <4> QED BY <1>2, <3>1, <4>1, <4>2, <4>3, WithPortFacts
    <3> QED BY <3>2, <3>3
  <2>3. ReplaceTcp(swarm[i], newPort)[j] = WithPort(swarm[i][j], newPort)
        /\ j \in DOMAIN ReplaceTcp(swarm[i], newPort)
    BY <1>2, <2>1, <2>2, PlainNow, PlainTcp
  <2>4. WithPort(swarm[i][j], newPort).proto = "tcp" /\ WithPort(swarm[i][j], newPort).port = newPort
    BY <2>1, <2>2, WithPortFacts
  <2>5. Parses(ReplaceTcp(swarm[i], newPort))
    BY <1>1 DEF Accepted, SwarmInv
  <2> QED BY <2>3, <2>4, <2>5 DEF Parses, HasPort
<1> QED BY <1>1, <1>2 DEF RangeInv, HasTcp

(* Every plain address has, after every start, the port of that start; and *)
(* a port that a TCP address was given is in range.                        *)
THEOREM PortsInductive == Spec => []PInv
<1>1. Init => PInv
  BY DEF Init, PInv, SwarmInv, RangeInv
<1>2. PInv /\ [Next]_vars => PInv'
  <2> SUFFICES ASSUME PInv, [Next]_vars PROVE PInv'
    OBVIOUS
  <2>1. CASE Next
    BY <2>1, NextSwarmInv, NextRangeInv DEF Next, PInv
  <2>2. CASE UNCHANGED vars
    BY <2>2 DEF vars, PInv, SwarmInv, RangeInv
  <2> QED BY <2>1, <2>2
<1> QED BY <1>1, <1>2, PTL DEF Spec

(* replacePorts does what it is for to every plain address, however long   *)
(* the list and however often the node was started: PortsAdjusted.         *)
THEOREM EveryPortAdjusted == Spec => []PortsAdjusted
<1>1. PInv => PortsAdjusted
  BY DEF PInv, SwarmInv, PortsAdjusted
<1> QED BY <1>1, PortsInductive, PTL

(* With a TCP address among plain ones, updateConfig never writes a list   *)
(* that the next start cannot parse: StaysParsable.                        *)
THEOREM AlwaysParsable == Spec => []StaysParsable
<1>1. PInv => StaysParsable
  <2> SUFFICES ASSUME PInv, \A i \in DOMAIN original : Plain(original[i]) /\ Parses(original[i]),
                      \E i \in DOMAIN original : HasTcp(original[i]),
                      NEW i \in DOMAIN swarm
               PROVE  Parses(swarm[i])
    BY DEF StaysParsable, HasTcp
  <2>1. i \in DOMAIN original /\ Plain(original[i]) /\ Parses(original[i])
    BY DEF PInv, SwarmInv
  <2>2. CASE asked = <<>>
    BY <2>1, <2>2 DEF PInv, SwarmInv
  <2>3. CASE asked # <<>>
    <3>1. Len(Value(asked)) <= MaxDigits
      BY <2>3 DEF PInv, RangeInv
    <3>2. asked \in Digits /\ swarm[i] = Adjusted(original[i], asked)
      BY <2>1, <2>3, SwarmPortsAssumption DEF PInv, SwarmInv
    <3>3. swarm[i] = [k \in DOMAIN original[i] |-> IF HasPort(original[i][k])
                        THEN WithPort(original[i][k], asked) ELSE original[i][k]]
      BY <3>2 DEF Adjusted, WithPort
    <3>4. ASSUME NEW k \in DOMAIN original[i], HasPort(swarm[i][k])
          PROVE  swarm[i][k].port = asked
      <4>1. original[i][k] \in Components
        BY <2>1, PlainNow DEF PInv
      <4> QED BY <3>2, <3>3, <3>4, <4>1, WithPortFacts
    <3> QED BY <3>1, <3>3, <3>4 DEF Parses
  <2> QED BY <2>2, <2>3
<1> QED BY <1>1, PortsInductive, PTL
=============================================================================
