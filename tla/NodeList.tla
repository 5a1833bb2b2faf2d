------------------------------ MODULE NodeList ------------------------------
(***************************************************************************)
(* The node list: refresh_nodes and its loop (src/service.rs), the         *)
(* download and the tolerant CSV parser (src/vpngate.rs).  The loop and    *)
(* API callers compete for one refresh; an API caller that disconnects     *)
(* drops its refresh at any await.                                         *)
(*                                                                         *)
(* A row is a record of what parse_node tells apart: host, address,        *)
(* whether there are 15 fields whose numbers and texts parse, and the      *)
(* profile.  sanitize_openvpn accepts the profiles in the domain of Port.  *)
(***************************************************************************)
EXTENDS Naturals, Sequences, FiniteSets, SequencesExt

CONSTANTS
  Row,       \* rows the download may hold
  Udp,       \* profiles refused as UnsupportedProtocol
  Port,      \* port of each profile the sanitizer accepts
  PublicIp,  \* addresses is_public_ipv4 accepts
  MaxRows,   \* CsvLimits.max_rows
  MaxRetry   \* doublings of the retry delay until refresh_interval

VARIABLES
  refreshing, \* AppState.refreshing
  run,        \* the refresh each of the two is in: its next step, the state of
              \* parse_snapshot and, as history, the rows before the end marker
  snapshot,   \* AppState.nodes
  lastInfo,   \* AppState.last_refresh: the counts of the last complete refresh
  sleeping,   \* whether the loop sleeps
  retry       \* doublings the loop has made

vars == <<refreshing, run, snapshot, lastInfo, sleeping, retry>>

Who == {"loop", "api"}

NoParse == [nodes |-> <<>>, seen |-> 0, accepted |-> 0, rejected |-> 0, unsupported |-> 0]
NoRun   == [step |-> "none", parse |-> NoParse, fed |-> 0]

Init ==
  /\ refreshing = FALSE /\ run = [who \in Who |-> NoRun]
  /\ snapshot = <<>> /\ lastInfo = NoParse
  /\ sleeping = FALSE /\ retry = 0

-----------------------------------------------------------------------------
(* Rows *)

\* The fields that make parse_node reject the row.
Rejected(row) == row.ip \notin PublicIp \/ row.fields # "ok" \/ row.profile = "undecodable"

Availability(row) ==
  CASE row.profile \in DOMAIN Port -> "available"
    [] row.profile \in Udp         -> "unsupported_protocol"
    [] OTHER                       -> "invalid_config"

TcpPort(row) == IF row.profile \in DOMAIN Port THEN Port[row.profile] ELSE 0

\* stable_node_id; the hash of these fields is taken to be injective.
StableId(row) == <<row.host, row.ip, TcpPort(row), row.profile>>

Node(row) == [id |-> StableId(row), host |-> row.host, ip |-> row.ip, port |-> TcpPort(row),
              availability |-> Availability(row),
              openvpn |-> IF row.profile \in DOMAIN Port THEN row.profile ELSE "none"]

CountRow(p, row) ==
  IF Rejected(row)
  THEN [p EXCEPT !.seen = @ + 1, !.rejected = @ + 1]
  ELSE [p EXCEPT !.seen = @ + 1, !.accepted = @ + 1, !.nodes = Append(@, Node(row)),
                 !.unsupported = @ + IF Availability(row) = "available" THEN 0 ELSE 1]

-----------------------------------------------------------------------------
(* A refresh *)

\* Mutant: the flag is set without looking at it.
BeginRefresh_NotBusy(who) ==
  /\ run[who].step = "none"
  /\ who = "loop" => ~ sleeping
  /\ refreshing' = TRUE
  /\ run' = [run EXCEPT ![who].step = "fetch"]
  /\ UNCHANGED <<snapshot, lastInfo, sleeping, retry>>

\* compare_exchange on refreshing: a second refresh is refused (RefreshBusy).
BeginRefresh(who) ==
  /\ run[who].step = "none" /\ ~ refreshing
  /\ who = "loop" => ~ sleeping
  /\ refreshing' = TRUE
  /\ run' = [run EXCEPT ![who].step = "fetch"]
  /\ UNCHANGED <<snapshot, lastInfo, sleeping, retry>>

\* The loop finds a refresh of an API caller running and sleeps a second.
LoopBusy ==
  /\ run["loop"].step = "none" /\ refreshing /\ ~ sleeping
  /\ sleeping' = TRUE
  /\ UNCHANGED <<refreshing, run, snapshot, lastInfo, retry>>

\* The refresh returns; the guard clears the flag.
Leave(who, ok) ==
  /\ refreshing' = FALSE
  /\ run' = [run EXCEPT ![who] = NoRun]
  /\ sleeping' = (sleeping \/ who = "loop")
  /\ retry' = IF who # "loop" THEN retry
              ELSE IF ok THEN 0 ELSE IF retry < MaxRetry THEN retry + 1 ELSE retry

\* The request, its size, its encoding or its header fails.
FetchFails(who) ==
  /\ run[who].step = "fetch"
  /\ Leave(who, FALSE)
  /\ UNCHANGED <<snapshot, lastInfo>>

Fetched(who) ==
  /\ run[who].step = "fetch"
  /\ run' = [run EXCEPT ![who].step = "rows"]
  /\ UNCHANGED <<refreshing, snapshot, lastInfo, sleeping, retry>>

\* A row beyond the limit fails the whole refresh (TooManyRows).
ReadRow(who, row) ==
  /\ run[who].step = "rows"
  /\ IF run[who].parse.seen >= MaxRows
     THEN Leave(who, FALSE)
     ELSE /\ run' = [run EXCEPT ![who].parse = CountRow(@, row), ![who].fed = @ + 1]
          /\ UNCHANGED <<refreshing, sleeping, retry>>
  /\ UNCHANGED <<snapshot, lastInfo>>

\* The end marker or the end of the download: the snapshot is replaced.
Publish(who) ==
  /\ run[who].step = "rows"
  /\ snapshot' = run[who].parse.nodes
  /\ run' = [run EXCEPT ![who].step = "settle"]
  /\ UNCHANGED <<refreshing, lastInfo, sleeping, retry>>

\* Observed nodes and stale results have been cleaned up: last_refresh is set
\* and everybody is told.
Announce(who) ==
  /\ run[who].step = "settle"
  /\ lastInfo' = run[who].parse
  /\ Leave(who, TRUE)
  /\ UNCHANGED snapshot

\* The connection of an API caller closes and its handler is dropped.
ClientGone ==
  /\ run["api"].step # "none"
  /\ Leave("api", FALSE)
  /\ UNCHANGED <<snapshot, lastInfo>>

LoopWakes ==
  /\ sleeping
  /\ sleeping' = FALSE
  /\ UNCHANGED <<refreshing, run, snapshot, lastInfo, retry>>

Next ==
  \/ \E who \in Who : BeginRefresh(who) \/ FetchFails(who) \/ Fetched(who)
                       \/ Publish(who) \/ Announce(who)
  \/ \E who \in Who, row \in Row : ReadRow(who, row)
  \/ LoopBusy \/ LoopWakes \/ ClientGone

Spec == Init /\ [][Next]_vars

-----------------------------------------------------------------------------
(* Properties *)

\* A failed refresh leaves the previous snapshot intact, and a refresh replaces
\* it only by all accepted rows of a whole download: the rows before the end
\* marker, none of them dropped by the row limit.  last_refresh, written in a
\* later step, describes the snapshot in force then: nobody else has replaced
\* it in between, not even after an API caller left its refresh half way.
WholeListOrNothing ==
  [][/\ snapshot' # snapshot =>
          \E who \in Who :
            LET parse == run[who].parse
            IN /\ run[who].step = "rows" /\ snapshot' = parse.nodes
               /\ parse.seen = run[who].fed /\ parse.accepted + parse.rejected = parse.seen
               /\ Len(snapshot') = parse.accepted
               /\ Cardinality({i \in DOMAIN snapshot' : snapshot'[i].openvpn = "none"})
                    = parse.unsupported
     /\ lastInfo' # lastInfo => lastInfo'.nodes = snapshot]_vars
=============================================================================
