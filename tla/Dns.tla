-------------------------------- MODULE Dns --------------------------------
(***************************************************************************)
(* The resolver of the worker endpoint (src/socks.rs): one A query to each *)
(* server in turn, over UDP and again over TCP if the answer is cut off,   *)
(* and the parser of the answer.  The parser reads every byte once, so the *)
(* content of the answer is chosen as it is read; only its length is fixed *)
(* beforehand.  Offsets count from 0 as in the code.                       *)
(***************************************************************************)
EXTENDS Naturals, FiniteSets

CONSTANTS
  Servers,    \* number of DNS_SERVERS
  Lengths,    \* lengths of answers
  MaxRecords, \* bound: questions and answers announced by a header
  MaxLabels,  \* labels in a name, 128 in skip_dns_name
  LabelSizes, \* sizes of labels
  DataSizes,  \* sizes of record data
  PublicIp, OtherIp

VARIABLES
  server,    \* the server being asked, Servers + 1 when all have failed
  via,       \* "udp" or "tcp"
  at,        \* what the parser reads next
  length, offset, questions, answers, labels,
  addresses, \* what the parser has collected
  touched,   \* history: one more than the last byte read
  result     \* the address that will be dialled

parser == <<length, offset, questions, answers, labels, addresses, touched>>
vars   == <<server, via, at, parser, result>>

NoIp == "none"

Init ==
  /\ server = 1 /\ via = "udp" /\ at = "ask"
  /\ length = 0 /\ offset = 0 /\ questions = 0 /\ answers = 0 /\ labels = 0
  /\ addresses = {} /\ touched = 0 /\ result = NoIp

Forget ==
  /\ length' = 0 /\ offset' = 0 /\ questions' = 0 /\ answers' = 0 /\ labels' = 0
  /\ addresses' = {} /\ touched' = 0

\* Any error of query_dns_a moves on to the next server.
NextServer ==
  /\ server' = server + 1 /\ via' = "udp"
  /\ at' = IF server = Servers THEN "failed" ELSE "ask"
  /\ Forget
  /\ UNCHANGED result

\* A timeout, an I/O error, a bad name, another id, an error code or too many
\* records.
QueryFails == at = "ask" /\ NextServer

\* Over TCP the bit is not looked at.
Truncated ==
  /\ at = "ask" /\ via = "udp"
  /\ via' = "tcp"
  /\ UNCHANGED <<server, at, parser, result>>

\* A header of 12 bytes that matches the query.
Header(size, q, a) ==
  /\ at = "ask" /\ size >= 12
  /\ length' = size /\ offset' = 12 /\ touched' = 12
  /\ questions' = q /\ answers' = a /\ labels' = 0
  /\ at' = IF q + a = 0 THEN "end" ELSE "name"
  /\ UNCHANGED <<server, via, addresses, result>>

-----------------------------------------------------------------------------
(* skip_dns_name *)

AfterName == IF questions > 0 THEN "question" ELSE "answer"

\* No byte left, a size above 63, too many labels, or a pointer out of bounds.
BadName == at = "name" /\ NextServer

Terminator ==
  /\ at = "name" /\ offset < length /\ labels < MaxLabels
  /\ touched' = offset + 1 /\ offset' = offset + 1 /\ labels' = 0
  /\ at' = AfterName
  /\ UNCHANGED <<server, via, length, questions, answers, addresses, result>>

\* Mutant: the second byte of the pointer is not looked for.
Pointer_OneByte ==
  /\ at = "name" /\ offset < length /\ labels < MaxLabels
  /\ touched' = offset + 2 /\ offset' = offset + 2 /\ labels' = 0
  /\ at' = AfterName
  /\ UNCHANGED <<server, via, length, questions, answers, addresses, result>>

\* A compression pointer ends the name; it is checked and not followed.
Pointer ==
  /\ at = "name" /\ offset + 1 < length /\ labels < MaxLabels
  /\ touched' = offset + 2 /\ offset' = offset + 2 /\ labels' = 0
  /\ at' = AfterName
  /\ UNCHANGED <<server, via, length, questions, answers, addresses, result>>

Label(size) ==
  /\ at = "name" /\ offset < length /\ labels < MaxLabels
  /\ offset + 1 + size <= length
  /\ touched' = offset + 1 /\ offset' = offset + 1 + size
  /\ labels' = labels + 1
  /\ UNCHANGED <<server, via, at, length, questions, answers, addresses, result>>

-----------------------------------------------------------------------------
(* parse_dns_a_response *)

\* Type and class of a question are skipped.
Question ==
  /\ at = "question"
  /\ IF offset + 4 > length
     THEN NextServer
     ELSE /\ offset' = offset + 4
          /\ questions' = questions - 1
          /\ at' = IF questions + answers = 1 THEN "end" ELSE "name"
          /\ UNCHANGED <<server, via, length, answers, labels, addresses, touched, result>>

\* A record: ten bytes, then data of the size they give.
Answer(isA, size, ip) ==
  /\ at = "answer"
  /\ IF offset + 10 + size > length
     THEN NextServer
     ELSE /\ touched' = offset + 10 + IF isA /\ size = 4 THEN 4 ELSE 0
          /\ addresses' = IF isA /\ size = 4 THEN addresses \union {ip} ELSE addresses
          /\ offset' = offset + 10 + size
          /\ answers' = answers - 1
          /\ at' = IF answers = 1 THEN "end" ELSE "name"
          /\ UNCHANGED <<server, via, length, questions, labels, result>>

\* The first public address, or the next server.
Choose ==
  /\ at = "end"
  /\ IF addresses \intersect PublicIp = {} THEN NextServer
     ELSE /\ result' \in addresses \intersect PublicIp
          /\ at' = "resolved"
          /\ UNCHANGED <<server, via, parser>>

Next ==
  \/ QueryFails \/ Truncated
  \/ \E size \in Lengths, q, a \in 0..MaxRecords : Header(size, q, a)
  \/ BadName \/ Terminator \/ Pointer
  \/ \E size \in LabelSizes : Label(size)
  \/ Question
  \/ \E isA \in BOOLEAN, size \in DataSizes, ip \in PublicIp \union OtherIp : Answer(isA, size, ip)
  \/ Choose

Spec == Init /\ [][Next]_vars

-----------------------------------------------------------------------------
(* Properties *)

\* The parser never reads or stands beyond the answer, whatever names, counts
\* and sizes the answer claims: an index out of bounds would panic the task.
InBounds == touched <= length /\ offset <= length
=============================================================================
