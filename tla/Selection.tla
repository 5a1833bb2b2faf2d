----------------------------- MODULE Selection -----------------------------
(***************************************************************************)
(* Two readers of a node list: the policy that picks the node to connect   *)
(* to (src/auto_connect.rs) and the paged list of the Web API (list_nodes  *)
(* of src/api/mod.rs).  The list grows node by node, in any order, so that *)
(* both readers are asked about every small list.                          *)
(*                                                                         *)
(* A node carries the outcome that the store holds for its id.  NoPing is  *)
(* a ping of None, MaxPing is u32::MAX.  A region as typed has a code of   *)
(* size bytes, may be in lower case and may have one blank around it.      *)
(***************************************************************************)
EXTENDS Integers, Sequences, FiniteSets, SequencesExt

CONSTANTS
  Node,        \* nodes a list may hold
  RegionInput, \* regions a user may type, the code "" is an empty field
  MaxNodes,    \* longest list
  MaxRegion    \* longest region accepted, 8 bytes

VARIABLE nodeList

NoPing  == -1
MaxPing == 1000

IpType      == {"any", "native", "broadcast"}
Residential == {"any", "residential", "nonResidential"}
SortKey     == {"score", "ping", "speed", "sessions", "fraud"}
SortOrder   == {"asc", "desc"}

Init == nodeList = << >>

\* The parser keeps every row, so an id may come twice with other figures.  An
\* id is a digest of address and profile, and the store is keyed by it: only
\* what depends on these is the same in all rows of one id.
AddNode(n) ==
  /\ Len(nodeList) < MaxNodes
  /\ \A i \in DOMAIN nodeList :
       nodeList[i].id = n.id =>
         nodeList[i].available = n.available /\ nodeList[i].test = n.test
  /\ nodeList' = Append(nodeList, n)

Next == \E n \in Node : AddNode(n)

Spec == Init /\ [][Next]_nodeList

-----------------------------------------------------------------------------
(* Filters *)

Nodes == {nodeList[i] : i \in DOMAIN nodeList}

Lexicographic(a, b) ==
  \E i \in DOMAIN a : a[i] < b[i] /\ \A j \in 1 .. i - 1 : a[j] = b[j]

MatchesIpTraits(n, ipType, residential) ==
  \/ ipType = "any" /\ residential = "any"
  \/ /\ n.test.result = "ok"
     /\ ipType = "native" => ~ n.test.broadcast
     /\ ipType = "broadcast" => n.test.broadcast
     /\ residential = "residential" => n.test.residential
     /\ residential = "nonResidential" => ~ n.test.residential

Trim(r) == [r EXCEPT !.padded = FALSE]

\* eq_ignore_ascii_case against the country of a node, which has no blanks.
SameRegion(n, r) == n.country = r.code /\ ~ r.padded

\* AutoConnectConfig::normalized: the region in upper case, and whether it is
\* accepted.  An empty one means every region.
Normalized(r) == [Trim(r) EXCEPT !.lower = FALSE]
PolicyAccepts(r) == r.size <= MaxRegion

-----------------------------------------------------------------------------
(* select_node *)

\* The order of max_by: bandwidth, score, shorter ping, smaller id.
Bandwidth(n) ==
  <<n.speed, n.score, - (IF n.ping = NoPing THEN MaxPing ELSE n.ping), - n.id>>

\* Mutant: a region is compared as it was typed.
Considered_Typed(region, ipType, residential) ==
  {n \in Nodes : /\ n.available
                 /\ Normalized(region).code = "" \/ SameRegion(n, region)
                 /\ MatchesIpTraits(n, ipType, residential)}

Considered(region, ipType, residential) ==
  {n \in Nodes : /\ n.available
                 /\ Normalized(region).code = "" \/ SameRegion(n, Normalized(region))
                 /\ MatchesIpTraits(n, ipType, residential)}

\* The best node that is not excluded, the last one of equal ones.
SelectNode(considered, excluded) ==
  LET left == SelectSeq(nodeList, LAMBDA n : n \in considered /\ n.id \notin excluded)
      best == {i \in DOMAIN left :
                 \A j \in DOMAIN left : ~ Lexicographic(Bandwidth(left[i]), Bandwidth(left[j]))}
  IN IF best = {} THEN << >> ELSE <<left[CHOOSE i \in best : \A j \in best : j <= i]>>

\* The nodes an automatic connection tries while each of them fails.
RECURSIVE Tried(_, _)
Tried(considered, excluded) ==
  LET pick == SelectNode(considered, excluded)
  IN IF pick = << >> THEN << >>
     ELSE pick \o Tried(considered, excluded \union {pick[1].id})

-----------------------------------------------------------------------------
(* list_nodes *)

Fraud(n) == IF n.test.result = "ok" THEN n.test.fraud ELSE NoPing

SortValue(n, key) ==
  CASE key = "score"    -> n.score
    [] key = "ping"     -> n.ping
    [] key = "speed"    -> n.speed
    [] key = "sessions" -> n.sessions
    [] key = "fraud"    -> Fraud(n)

Unknown(n, key) == key \in {"ping", "fraud"} /\ SortValue(n, key) = NoPing

\* Mutant: descending order reverses the whole comparison.
CompareNodes_Reversed(l, r, key, order) ==
  LET rank(n) == <<IF Unknown(n, key) THEN 1 ELSE 0, SortValue(n, key), n.id>>
  IN IF order = "asc" THEN Lexicographic(rank(l), rank(r)) ELSE Lexicographic(rank(r), rank(l))

\* l is ordered before r.
CompareNodes(l, r, key, order) ==
  LET sign == IF order = "asc" THEN 1 ELSE -1
      rank(n) == IF Unknown(n, key) THEN <<1, 0, n.id>>
                                    ELSE <<0, sign * SortValue(n, key), n.id>>
  IN Lexicographic(rank(l), rank(r))

ListAccepts(region) == region.size + (IF region.padded THEN 1 ELSE 0) <= MaxRegion

Listed(region, ipType, residential, availability, search) ==
  SelectSeq(nodeList, LAMBDA n :
    /\ availability = "available" => n.available
    /\ Trim(region).code = "" \/ SameRegion(n, Trim(region))
    /\ MatchesIpTraits(n, ipType, residential)
    /\ search = "" \/ search \in n.text)

Page(sorted, page, size) ==
  LET offset == (page - 1) * size
  IN SubSeq(sorted, offset + 1, IF offset + size < Len(sorted) THEN offset + size ELSE Len(sorted))

ListNodes(listed, key, order, page, size) ==
  Page(SortSeq(listed, LAMBDA l, r : CompareNodes(l, r, key, order)), page, size)

-----------------------------------------------------------------------------
(* Properties *)

\* An automatic connection whose attempts all fail tries exactly the ids of the
\* connectable nodes that the list shows for the same region and classification,
\* each once although an id may be listed with several rows, with the most
\* bandwidth the list shows for it and never more than the one before: the
\* policy and the list read the same nodes however the region was typed.
TriesWhatIsListed ==
  \A region \in RegionInput, ipType \in IpType, residential \in Residential :
    PolicyAccepts(region) /\ ListAccepts(region) =>
      LET tried  == Tried(Considered(region, ipType, residential), {})
          listed == Listed(region, ipType, residential, "available", "")
      IN /\ {tried[i].id : i \in DOMAIN tried} = {listed[i].id : i \in DOMAIN listed}
         /\ \A i \in DOMAIN tried, j \in DOMAIN listed :
              tried[i].id = listed[j].id => tried[i].speed >= listed[j].speed
         /\ \A i, j \in DOMAIN tried :
              i < j => tried[i].id # tried[j].id /\ tried[j].speed <= tried[i].speed

\* A reader that follows the pages of one list sees every node of it as often
\* as the list holds it, whatever order the source sent them in: values run
\* the way that was asked for, nodes without the value come last both ways,
\* and equal ones are in the order of their ids.
PagesCoverTheList ==
  \A key \in SortKey, order \in SortOrder, size \in 1 .. MaxNodes, search \in {"", "jp"} :
    LET region == [code |-> "", size |-> 0, lower |-> FALSE, padded |-> FALSE]
        listed == Listed(region, "any", "any", "any", search)
        read   == FlattenSeq([p \in 1 .. MaxNodes |-> ListNodes(listed, key, order, p, size)])
    IN /\ \A n \in Node : Cardinality({i \in DOMAIN read : read[i] = n})
                            = Cardinality({i \in DOMAIN listed : listed[i] = n})
       /\ \A i, j \in DOMAIN read : i < j =>
            LET a == SortValue(read[i], key)
                b == SortValue(read[j], key)
            IN /\ Unknown(read[i], key) => Unknown(read[j], key)
               /\ ~ Unknown(read[j], key) => IF order = "asc" THEN a <= b ELSE a >= b
               /\ a = b => read[i].id <= read[j].id
=============================================================================
