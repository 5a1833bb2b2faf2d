----------------------------- MODULE SocksWire -----------------------------
(***************************************************************************)
(* The SOCKS5 messages of src/socks.rs as bytes: greetings, requests and   *)
(* replies, which one side writes whole and the other reads from a stream  *)
(* that carries the user's data right behind them, and the rules for the   *)
(* targets that may be asked for.                                          *)
(*                                                                         *)
(* A domain name is a sequence of labels, each standing for one byte on    *)
(* the wire: 0 is an empty label, the others are named below.              *)
(***************************************************************************)
EXTENDS Naturals, Sequences, FiniteSets

CONSTANTS
  Target,    \* targets that are asked for: [kind, addr, port]
  Bad,       \* other first bytes a client may send, with their kind
  Payload,   \* user data behind a message
  MaxName    \* longest name, 253 bytes

VARIABLE wire   \* the message on its way and how many bytes have arrived

Localhost == 2
Local     == 3
Internal  == 4
Unicode   == 5   \* a label that is not ASCII
Capitals  == 6   \* localhost in capital letters

-----------------------------------------------------------------------------
(* Targets *)

Pow2(n) == 2^n

\* The first prefix bits of both addresses agree.
InCidr(ip, net, prefix) ==
  \A i \in 1..4 :
    LET bits == IF prefix >= 8 * i THEN 8 ELSE IF prefix <= 8 * (i - 1) THEN 0 ELSE prefix - 8 * (i - 1)
    IN ip[i] \div Pow2(8 - bits) = net[i] \div Pow2(8 - bits)

IsPublic(ip) ==
  ~ \/ InCidr(ip, <<0, 0, 0, 0>>, 8)       \/ InCidr(ip, <<10, 0, 0, 0>>, 8)
    \/ InCidr(ip, <<100, 64, 0, 0>>, 10)   \/ InCidr(ip, <<127, 0, 0, 0>>, 8)
    \/ InCidr(ip, <<169, 254, 0, 0>>, 16)  \/ InCidr(ip, <<172, 16, 0, 0>>, 12)
    \/ InCidr(ip, <<192, 0, 0, 0>>, 24)    \/ InCidr(ip, <<192, 0, 2, 0>>, 24)
    \/ InCidr(ip, <<192, 88, 99, 0>>, 24)  \/ InCidr(ip, <<192, 168, 0, 0>>, 16)
    \/ InCidr(ip, <<198, 18, 0, 0>>, 15)   \/ InCidr(ip, <<198, 51, 100, 0>>, 24)
    \/ InCidr(ip, <<203, 0, 113, 0>>, 24)  \/ InCidr(ip, <<224, 0, 0, 0>>, 4)
    \/ InCidr(ip, <<240, 0, 0, 0>>, 4)

\* to_ascii_lowercase
Lower(label) == IF label = Capitals THEN Localhost ELSE label

\* Mutant: the name is compared as it was typed.
ForbiddenName_Typed(name) ==
  \/ Len(name) > MaxName
  \/ name[Len(name)] = Localhost
  \/ Len(name) > 1 /\ name[Len(name)] \in {Local, Internal}
  \/ \E i \in DOMAIN name : name[i] \in {0, Unicode}

\* Names that stay inside the host or the network, and malformed ones.
\* The suffix rules need a dot in front of local and internal.
ForbiddenName(name) ==
  LET last == Lower(name[Len(name)])
  IN \/ Len(name) > MaxName
     \/ last = Localhost
     \/ Len(name) > 1 /\ last \in {Local, Internal}
     \/ \E i \in DOMAIN name : name[i] \in {0, Unicode}

\* validate_target
Allowed(t) ==
  /\ IF t.kind = "ip" THEN IsPublic(t.addr) ELSE ~ ForbiddenName(t.addr)
  /\ t.port # 0

-----------------------------------------------------------------------------
(* Messages: a reader waits for more bytes, fails, or is done having used   *)
(* some of them.                                                            *)

More      == [status |-> "more", used |-> 0, value |-> <<>>]
Err(why)  == [status |-> why, used |-> 0, value |-> <<>>]
Done(used, value) == [status |-> "ok", used |-> used, value |-> value]

Port16(p) == <<p \div 256, p % 256>>

\* encode_request
EncodeRequest(t) ==
  IF t.kind = "ip"
  THEN <<5, 1, 0, 1>> \o t.addr \o Port16(t.port)
  ELSE <<5, 1, 0, 3, Len(t.addr)>> \o t.addr \o Port16(t.port)

Vet(t, used) == IF Allowed(t) THEN Done(used, t) ELSE Err("ForbiddenTarget")

\* Mutant: the length byte is taken to count the port as well.
ReadRequest_ShortName(b) ==
  IF Len(b) < 5 THEN More
  ELSE IF b[4] = 3 THEN
    IF Len(b) < 5 + b[5] THEN More
    ELSE Vet([kind |-> "name", addr |-> SubSeq(b, 6, 5 + b[5]), port |-> 443], 5 + b[5])
  ELSE IF Len(b) < 10 THEN More
  ELSE Vet([kind |-> "ip", addr |-> SubSeq(b, 5, 8), port |-> b[9] * 256 + b[10]], 10)

\* read_request
ReadRequest(b) ==
  IF Len(b) < 4 THEN More
  ELSE IF b[1] # 5 \/ b[3] # 0 THEN Err("Protocol")
  ELSE IF b[2] # 1 THEN Err("CommandUnsupported")
  ELSE CASE b[4] = 1 ->
              IF Len(b) < 10 THEN More
              ELSE Vet([kind |-> "ip", addr |-> SubSeq(b, 5, 8), port |-> b[9] * 256 + b[10]], 10)
         [] b[4] = 3 ->
              IF Len(b) < 5 THEN More
              ELSE IF b[5] = 0 THEN Err("Protocol")
              ELSE IF Len(b) < 7 + b[5] THEN More
              ELSE Vet([kind |-> "name", addr |-> SubSeq(b, 6, 5 + b[5]),
                        port |-> b[6 + b[5]] * 256 + b[7 + b[5]]], 7 + b[5])
         [] b[4] = 4 -> Err("ForbiddenTarget")
         [] OTHER    -> Err("Protocol")

\* send_reply: the bound address of an established connection, or zeros.
EncodeReply(code, bound) == <<5, code, 0, 1>> \o bound.addr \o Port16(bound.port)

\* read_reply
ReadReply(b) ==
  IF Len(b) < 4 THEN More
  ELSE IF b[1] # 5 \/ b[3] # 0 THEN Err("Protocol")
  ELSE LET length == CASE b[4] = 1 -> 10
                       [] b[4] = 3 -> IF Len(b) < 5 THEN 5 ELSE 7 + b[5]
                       [] b[4] = 4 -> 22
                       [] OTHER    -> 0
       IN IF length = 0 THEN Err("Protocol")
          ELSE IF Len(b) < length \/ (b[4] = 3 /\ Len(b) = 5) THEN More
          ELSE Done(length, b[2])

\* negotiate_method on either side: the methods offered, then the choice.
Greeting(methods) == <<5, Len(methods)>> \o methods

ReadGreeting(b) ==
  IF Len(b) < 2 THEN More
  ELSE IF b[1] # 5 \/ b[2] = 0 \/ b[2] > 16 THEN Err("Protocol")
  ELSE IF Len(b) < 2 + b[2] THEN More
  ELSE Done(2 + b[2], {b[i] : i \in 3..(2 + b[2])})

Read(kind, bytes) ==
  CASE kind = "request" -> ReadRequest(bytes)
    [] kind = "reply"   -> ReadReply(bytes)
    [] OTHER            -> ReadGreeting(bytes)

-----------------------------------------------------------------------------
(* A message arrives byte by byte, with user data behind it *)

Idle == [kind |-> "none", bytes |-> <<>>, length |-> 0, arrived |-> 0, value |-> <<>>,
         known |-> FALSE]

Init == wire = Idle

Sent(kind, message, value, known) ==
  wire' = [kind |-> kind, bytes |-> message \o Payload, length |-> Len(message),
           arrived |-> 0, value |-> value, known |-> known]

SendRequest(t) == wire.kind = "none" /\ Sent("request", EncodeRequest(t), t, TRUE)

\* The worker endpoint answers with the address it dialled from.
SendReply(code, t) == wire.kind = "none" /\ t.kind = "ip" /\ Sent("reply", EncodeReply(code, t), code, TRUE)

SendGreeting(methods) ==
  wire.kind = "none" /\ Sent("greeting", Greeting(methods), {methods[i] : i \in DOMAIN methods},
                       TRUE)

\* Something that neither connect_worker nor send_reply writes.
SendBad(m) == wire.kind = "none" /\ Sent(m.kind, m.bytes, <<>>, FALSE)

Arrive ==
  /\ wire.arrived < Len(wire.bytes)
  /\ wire' = [wire EXCEPT !.arrived = @ + 1]

Finish ==
  /\ wire.kind # "none" /\ wire.arrived = Len(wire.bytes)
  /\ wire' = Idle

Next ==
  \/ \E t \in Target : SendRequest(t) \/ (\E code \in {0, 1} : SendReply(code, t))
  \/ \E methods \in {<<0>>, <<2>>, <<0, 2>>} : SendGreeting(methods)
  \/ \E m \in Bad : SendBad(m)
  \/ Arrive \/ Finish

Spec == Init /\ [][Next]_wire

-----------------------------------------------------------------------------
(* Properties *)

Received == Read(wire.kind, SubSeq(wire.bytes, 1, wire.arrived))

\* Framing is exact: while a message is incomplete its reader waits or has
\* already refused it, and when it is complete the reader returns what was
\* written and leaves every byte behind it for the bridge.
FramingExact ==
  wire.known =>
    LET got == Received
    IN IF wire.arrived < wire.length THEN got.status # "ok"
       ELSE got \in {Done(wire.length, wire.value), Err("ForbiddenTarget")}

\* A range of addresses in dotted order.
Between(ip, lo, hi) ==
  LET Less(x, y) == \E i \in 1..4 : x[i] < y[i] /\ \A j \in 1..(i - 1) : x[j] = y[j]
  IN ~ Less(ip, lo) /\ ~ Less(hi, ip)

\* The special-purpose ranges of IANA that is_public_ipv4 has to leave out.
Reserved(ip) ==
  \/ ip[1] \in {0, 10, 127} \/ ip[1] >= 224
  \/ Between(ip, <<100, 64, 0, 0>>, <<100, 127, 255, 255>>)
  \/ Between(ip, <<169, 254, 0, 0>>, <<169, 254, 255, 255>>)
  \/ Between(ip, <<172, 16, 0, 0>>, <<172, 31, 255, 255>>)
  \/ Between(ip, <<192, 0, 0, 0>>, <<192, 0, 0, 255>>)
  \/ Between(ip, <<192, 0, 2, 0>>, <<192, 0, 2, 255>>)
  \/ Between(ip, <<192, 88, 99, 0>>, <<192, 88, 99, 255>>)
  \/ Between(ip, <<192, 168, 0, 0>>, <<192, 168, 255, 255>>)
  \/ Between(ip, <<198, 18, 0, 0>>, <<198, 19, 255, 255>>)
  \/ Between(ip, <<198, 51, 100, 0>>, <<198, 51, 100, 255>>)
  \/ Between(ip, <<203, 0, 113, 0>>, <<203, 0, 113, 255>>)

\* A name of the public tree: every label is plain ASCII text, the whole fits
\* into a DNS question, and it is neither below the special-use names localhost,
\* local and internal (in small letters or capitals) nor localhost itself.
PublicName(name) ==
  /\ Len(name) <= MaxName
  /\ \A i \in DOMAIN name : name[i] \notin {0, Unicode}
  /\ Len(name) > 1 => name[Len(name)] \notin {Localhost, Capitals, Local, Internal}
  /\ name \notin {<<Localhost>>, <<Capitals>>}

\* Whatever a client sends, a request that is accepted names a port and either
\* an address outside the special-purpose ranges or a name of the public tree;
\* and no other request is refused as forbidden.
TargetsVetted ==
  wire.kind = "request" =>
    LET got == Received
        Public(t) == IF t.kind = "ip" THEN ~ Reserved(t.addr) ELSE PublicName(t.addr)
    IN /\ got.status = "ok" => got.value.port # 0 /\ Public(got.value)
       /\ got.status = "ForbiddenTarget" /\ wire.known =>
            wire.value.port = 0 \/ ~ Public(wire.value)
=============================================================================
