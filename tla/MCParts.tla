------------------------------- MODULE MCParts -------------------------------
(***************************************************************************)
(* Small instances of the parts of the system that share no state with the *)
(* actors: a behaviour picks one part and runs it, the others rest.        *)
(***************************************************************************)
EXTENDS Integers, Sequences, FiniteSets, TLC

CONSTANTS
  Worker, NoWorker, Session,       \* gateway
  StartId, NoId, StartTask,        \* admission
  Rule, AnyRule, Caller, NoCaller, \* policy
  Token, NoToken, Tab,             \* sessions
  NoAddress,                       \* start-up
  Client                           \* events

VARIABLES
  part,
  relay, present, draining, drain, retired, serving, tun, gw, wk,
  registered, starting, phase, claim, seen,
  profile,
  refreshing, run, snapshot, lastInfo, sleeping, retry,
  wire,
  server, via, at, length, offset, questions, answers, labels, addresses, touched, result,
  nodeList,
  stored, live, lock, call, late, unsettled,
  sessions, clock, given, cookie, tab, ended,
  names, entry, launches, netd, rootGuard, socketFile, app,
  field, todo, sent, client

-----------------------------------------------------------------------------
(* Sessions of the gateway are alike *)

Symmetry == Permutations(Session)

(* Profile lines, as a directive and its arguments *)

L(dir, args) == [dir |-> dir, args |-> args]

ProfileOptions ==
  <<L("cipher", <<"AES-128-CBC">>), L("cipher", <<"BF-CBC">>),
    L("data-ciphers", <<"AES-128-GCM:BF-CBC">>), L("remote-cert-tls", <<"server">>)>>

ProfileLines ==
  {ProfileOptions[i] : i \in DOMAIN ProfileOptions} \union
  {L("", <<>>), L("#", <<>>), L("NUL", <<>>), L("proto", <<"tcp">>), L("proto", <<"udp">>),
   L("proto", <<>>), L("dev", <<"tun">>), L("dev", <<"tap">>), L("dev-type", <<"tap">>),
   L("remote", <<"ip", "443">>), L("remote", <<"ip", "443", "tcp-client">>),
   L("remote", <<"ip", "443", "udp">>), L("remote", <<"other", "443">>),
   L("remote", <<"name", "443">>), L("remote", <<"ip", "0">>), L("remote", <<"ip">>),
   L("ca", <<"file">>), L("cipher", <<"unsafe">>), L("key-direction", <<"2">>),
   L("client", <<>>), L("client", <<"x">>), L("verb", <<"3">>), L("verb", <<"unsafe">>),
   L("setenv", <<"opt", "block-outside-dns">>), L("up", <<"x">>), L("unknown", <<>>)}
  \union {L("<>", <<b>>) : b \in {"ca", "cert", "key", "tls-auth", "other"}}
  \union {L("</>", <<"ca">>)}

BlockLines ==
  {L("", <<>>), L("NUL", <<>>), L("<>", <<"ca">>), L("cipher", <<"BF-CBC">>), L("</>", <<"ca">>)}

(* Rows of a node list *)

ListRow(h, i, f, p) == [host |-> h, ip |-> i, fields |-> f, profile |-> p]

ListRows ==
  {ListRow("h1", "1.2.3.4", "ok", p) : p \in {"p1", "udp"}}
  \union {ListRow("h1", "10.0.0.1", "ok", "p1"), ListRow("h1", "1.2.3.4", "ok", "scripted")}

(* SOCKS targets: around every boundary of the address ranges, and short names *)

Ip(a, b, c, d) == [kind |-> "ip", addr |-> <<a, b, c, d>>, port |-> 443]

SocksTargets ==
  {Ip(a, 1, 1, 1) : a \in {0, 1, 9, 10, 11, 126, 127, 128, 223, 224, 255}}
  \union {Ip(a, b, 0, 0) : a \in {100, 169, 172, 192, 198},
            b \in {0, 15, 16, 17, 18, 19, 20, 31, 32, 63, 64, 127, 128, 168, 169, 253, 254, 255}}
  \union {Ip(p[1], p[2], c, d) : p \in {<<192, 0>>, <<192, 88>>, <<198, 51>>, <<203, 0>>},
            c \in {0, 1, 2, 3, 99, 100, 101, 113, 114}, d \in {0, 255}}
  \union {[kind |-> "ip", addr |-> <<8, 8, 8, 8>>, port |-> p] : p \in {0, 1, 255, 256, 65535}}
  \union {[kind |-> "name", addr |-> n, port |-> 443] : n \in UNION {[1 .. k -> 0 .. 6] : k \in 1 .. 3}}

OtherBytes ==
  {[kind |-> k, bytes |-> <<v, c, r, t, n, 7, 1, 187>>] :
     k \in {"request", "reply", "greeting"}, v \in {4, 5}, c \in {0, 1, 17}, r \in {0, 1},
     t \in {1, 3, 4, 9}, n \in {0, 1}}

(* Nodes that differ in what the readers of a list look at *)

Outcome(r, b, s, f) == [result |-> r, broadcast |-> b, residential |-> s, fraud |-> f]
NoTest == Outcome("none", FALSE, FALSE, 0)
NodeRow(i, sp, sc, p, s, c, av, t) ==
  [id |-> i, speed |-> sp, score |-> sc, ping |-> p, sessions |-> s, country |-> c,
   available |-> av, text |-> IF c = "JP" THEN {"jp"} ELSE {}, test |-> t]

NodeRows ==
  {NodeRow(1, 2, 1, -1, 0, "JP", TRUE, NoTest),
   NodeRow(1, 2, 2, 5, 1, "KR", TRUE, Outcome("ok", TRUE, FALSE, 0)),
   NodeRow(2, 2, 1, 1000, 0, "JP", TRUE, NoTest),
   NodeRow(2, 1, 2, 5, 1, "JP", TRUE, Outcome("ok", FALSE, TRUE, 0)),
   NodeRow(2, 1, 1, 5, 1, "JP", FALSE, NoTest),
   NodeRow(2, 1, 1, 5, 1, "KR", TRUE, NoTest),
   NodeRow(3, 2, 1, 5, 2, "KR", TRUE, Outcome("ok", FALSE, FALSE, 50)),
   NodeRow(3, 1, 2, 7, 0, "JP", TRUE, Outcome("failed", FALSE, FALSE, 0)),
   NodeRow(3, 1, 1, 7, 0, "JP", TRUE, NoTest),
   NodeRow(4, 2, 2, -1, 1, "JP", TRUE, Outcome("ok", TRUE, TRUE, 50)),
   NodeRow(4, 1, 1, -1, 2, "KR", TRUE, NoTest)}

RegionField(c, n, l, p) == [code |-> c, size |-> n, lower |-> l, padded |-> p]

RegionFields ==
  {RegionField("", 0, FALSE, FALSE), RegionField("", 0, FALSE, TRUE),
   RegionField("JP", 2, FALSE, FALSE), RegionField("JP", 2, TRUE, TRUE),
   RegionField("LONG", 4, TRUE, FALSE)}

-----------------------------------------------------------------------------

gatewayVars == <<relay, present, draining, drain, retired, serving, tun, gw, wk>>
admissionVars == <<registered, starting, phase, claim, seen>>
nodeListVars == <<refreshing, run, snapshot, lastInfo, sleeping, retry>>
dnsVars == <<server, via, at, length, offset, questions, answers, labels,
            addresses, touched, result>>
policyVars == <<stored, live, lock, call, late, unsettled>>
sessionVars == <<sessions, clock, given, cookie, tab, ended>>
startupVars == <<names, entry, launches, netd, rootGuard, socketFile, app>>
eventVars == <<field, todo, sent, client>>

Gate   == INSTANCE Gateway WITH GatewayPermits <- 1, WorkerPermits <- 1
Netd   == INSTANCE Admission WITH Worker <- StartId, NoWorker <- NoId, Task <- StartTask,
                                  MaxWorkers <- 1
Prof   == INSTANCE Profile WITH Line <- ProfileLines, BlockLine <- BlockLines,
                                OptionOrder <- ProfileOptions, ExpectedIp <- "ip", OtherIp <- "other",
                                Pieces <- [v \in {"AES-128-GCM:BF-CBC"} |-> <<"AES-128-GCM", "BF-CBC">>],
                                MaxBlock <- 1
List   == INSTANCE NodeList WITH Row <- ListRows, Udp <- {"udp"}, PublicIp <- {"1.2.3.4"},
                                 Port <- [p \in {"p1", "p2"} |-> 443], MaxRows <- 2, MaxRetry <- 2
Wire   == INSTANCE SocksWire WITH Target <- SocksTargets, Bad <- OtherBytes, Payload <- <<5, 0>>,
                                  MaxName <- 2
Lookup == INSTANCE Dns WITH Servers <- 2, Lengths <- {12, 13, 14, 17, 18, 24, 28, 29, 33, 44, 47},
                            MaxRecords <- 2, MaxLabels <- 2, LabelSizes <- {1, 3},
                            DataSizes <- {0, 4, 5}, PublicIp <- {"public"}, OtherIp <- {"private"}
Sel    == INSTANCE Selection WITH Node <- NodeRows, RegionInput <- RegionFields, MaxNodes <- 3,
                                  MaxRegion <- 3
Policy == INSTANCE PolicyStore WITH MaxLate <- 1
Auth   == INSTANCE Sessions WITH SessionTicks <- 1, MaxClock <- 2
Boot   == INSTANCE Startup WITH Address <- {0, 1, 2}, Unusable <- {0}, MaxLaunch <- 2
Live   == INSTANCE Events WITH Capacity <- 1, MaxEvents <- 2

Init ==
  /\ part \in {"gateway", "admission", "profile", "nodeList", "wire", "dns", "selection",
               "policy", "sessions", "startup", "events"}
  /\ Gate!Init /\ Netd!Init /\ Prof!Init /\ List!Init /\ Wire!Init /\ Lookup!Init
  /\ Sel!Init /\ Policy!Init /\ Auth!Init /\ Boot!Init /\ Live!Init

Rest(active) ==
  /\ UNCHANGED part
  /\ IF active = "gateway" THEN TRUE ELSE UNCHANGED gatewayVars
  /\ IF active = "admission" THEN TRUE ELSE UNCHANGED admissionVars
  /\ IF active = "profile" THEN TRUE ELSE UNCHANGED profile
  /\ IF active = "nodeList" THEN TRUE ELSE UNCHANGED nodeListVars
  /\ IF active = "wire" THEN TRUE ELSE UNCHANGED wire
  /\ IF active = "dns" THEN TRUE ELSE UNCHANGED dnsVars
  /\ IF active = "selection" THEN TRUE ELSE UNCHANGED nodeList
  /\ IF active = "policy" THEN TRUE ELSE UNCHANGED policyVars
  /\ IF active = "sessions" THEN TRUE ELSE UNCHANGED sessionVars
  /\ IF active = "startup" THEN TRUE ELSE UNCHANGED startupVars
  /\ IF active = "events" THEN TRUE ELSE UNCHANGED eventVars

Next ==
  \/ part = "gateway" /\ Gate!Next /\ Rest("gateway")
  \/ part = "admission" /\ Netd!Next /\ Rest("admission")
  \/ part = "profile" /\ Prof!Next /\ Rest("profile")
  \/ part = "nodeList" /\ List!Next /\ Rest("nodeList")
  \/ part = "wire" /\ Wire!Next /\ Rest("wire")
  \/ part = "dns" /\ Lookup!Next /\ Rest("dns")
  \/ part = "selection" /\ Sel!Next /\ Rest("selection")
  \/ part = "policy" /\ Policy!Next /\ Rest("policy")
  \/ part = "sessions" /\ Auth!Next /\ Rest("sessions")
  \/ part = "startup" /\ Boot!Next /\ Rest("startup")
  \/ part = "events" /\ Live!Next /\ Rest("events")

vars == <<part, gatewayVars, admissionVars, profile, nodeListVars, wire, dnsVars, nodeList,
          policyVars, sessionVars, startupVars, eventVars>>

Spec == Init /\ [][Next]_vars

-----------------------------------------------------------------------------
(* Properties: those of the parts, each about the behaviours of its part *)

\* run_gateway: a switch spares the sessions that are connecting through the
\* worker it replaces.
SwitchSparesConnecting == Gate!SwitchSparesConnecting

\* handle_gateway_connection: a client is told of success only when its target
\* has been reached.
SuccessIsReal == part = "gateway" => Gate!SuccessIsReal

\* handle_worker_connection: only the upstream is reached beside the tunnel, and
\* only if the tunnel broke during the session.
NothingBypassesTunnel == part = "gateway" => Gate!NothingBypassesTunnel

\* WorkerManager::reserve: at most twice max_workers are ever registered.
CapacityOvershoot == part = "admission" => Netd!CapacityOvershoot

\* sanitize_openvpn: netd accepts what the control plane accepted, unchanged.
NetdAgrees == part = "profile" => Prof!NetdAgrees


\* MihomoOpenVpn: the export reads what the sanitizer accepted.
ExportFaithful == part = "profile" => Prof!ExportFaithful

\* refresh_nodes: a snapshot is replaced by a whole list or not at all.
WholeListOrNothing == List!WholeListOrNothing

\* read_request and read_reply take their message and no byte more.
FramingExact == part = "wire" => Wire!FramingExact

\* validate_target: only public addresses and names, and every one of them.
TargetsVetted == part = "wire" => Wire!TargetsVetted

\* parse_dns_a_response stays inside the answer.
InBounds == part = "dns" => Lookup!InBounds

\* select_node goes through exactly the ids that list_nodes shows.
TriesWhatIsListed == part = "selection" => Sel!TriesWhatIsListed

\* list_nodes: the pages of a list hold all of it, in order.
PagesCoverTheList == part = "selection" => Sel!PagesCoverTheList

\* The policy in force and the stored one agree, but for failed and dropped saves.
StoreFollowsLive == part = "policy" => Policy!StoreFollowsLive

\* require_auth: no request is admitted whose session had ended before it.
EndedStaysEnded == part = "sessions" => Auth!EndedStaysEnded

\* Control plane, netd and root firewall use one upstream address.
OneUpstreamAddress == part = "startup" => Boot!OneUpstreamAddress

\* A client that took every event and reloaded shows the state as it is.
ViewIsCurrent == part = "events" => Live!ViewIsCurrent
=============================================================================
