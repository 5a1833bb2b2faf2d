------------------------------ MODULE Profile ------------------------------
(***************************************************************************)
(* OpenVPN profiles: sanitize_openvpn (src/openvpn.rs), which reads a      *)
(* downloaded profile line by line and renders it anew from an allowlist;  *)
(* the profile netd runs (build_runtime_profile), which sanitizes the      *)
(* rendered text a second time; and the Mihomo export (src/mihomo.rs),     *)
(* which reads the rendered text with a parser of its own.                 *)
(*                                                                         *)
(* A line is [dir, args], a directive and its values; <b> and </b> are the *)
(* lines [dir |-> "<>", args |-> <<b>>] and [dir |-> "</>", ...]; blank    *)
(* lines have the directive "", comments "#", and a line with a zero byte  *)
(* "NUL".  Directives are in lower case already.  The values "unsafe" and  *)
(* "0" stand for a malformed value and for a port that is not one.         *)
(***************************************************************************)
EXTENDS Naturals, Sequences, FiniteSets, SequencesExt

CONSTANTS
  Line,         \* lines a downloaded profile may have outside inline blocks
  BlockLine,    \* and inside them, besides the line that ends the block
  OptionOrder,  \* option lines in the order of the BTreeSet
  Pieces,       \* what splitting a data-ciphers value at : and , yields
  ExpectedIp, OtherIp,
  MaxBlock      \* MAX_BLOCK_BYTES, counted in lines

VARIABLE profile   \* state of sanitize_openvpn after the lines read so far

Blocks  == <<"ca", "cert", "key", "tls-auth", "tls-crypt">>
Block   == Range(Blocks)
Tcp     == {"tcp", "tcp-client", "tcp4", "tcp4-client"}
Crypto  == {"cipher", "auth", "data-ciphers", "data-ciphers-fallback", "tls-version-min", "tls-cipher"}
Flags   == {"client", "tls-client", "nobind", "persist-key", "persist-tun", "pull", "auth-nocache"}
Scalars == {"resolv-retry", "connect-retry", "connect-retry-max", "connect-timeout",
            "server-poll-timeout", "verb", "mute"}
Dangerous ==
  {"up", "down", "route-up", "route-pre-down", "ipchange", "client-connect",
   "client-disconnect", "learn-address", "auth-user-pass-verify", "tls-verify", "plugin",
   "script-security", "management", "management-client", "management-external-key",
   "management-external-cert", "management-query-passwords", "management-hold", "daemon",
   "log", "log-append", "status", "writepid", "chroot", "cd", "user", "group", "route",
   "route-ipv6", "redirect-gateway", "ifconfig", "ifconfig-ipv6", "socks-proxy",
   "http-proxy", "auth-user-pass"}

L(dir, args) == [dir |-> dir, args |-> args]

\* body is the open block, <<>> with the name "none" outside one.
Fresh == [open |-> "none", body |-> <<>>, blocks |-> [b \in {} |-> <<>>], options |-> {},
          remote |-> <<>>, tcp |-> FALSE, tun |-> FALSE, err |-> "none"]

Init == profile = Fresh

-----------------------------------------------------------------------------
(* One line *)

Fail(p, why) == [Fresh EXCEPT !.err = why]

Opens(line) == line.dir = "<>"

\* A line inside a block: its end, an error, or text kept as it is.
InBlock(p, line) ==
  CASE line = L("</>", <<p.open>>) ->
         IF (\A i \in DOMAIN p.body : p.body[i].dir = "") \/ p.open \in DOMAIN p.blocks
         THEN Fail(p, "InvalidInlineBlock")
         ELSE [p EXCEPT !.blocks = [b \in DOMAIN @ \union {p.open} |->
                                      IF b = p.open THEN p.body ELSE @[b]],
                        !.open = "none", !.body = <<>>]
    [] line # L("</>", <<p.open>>) ->
         IF Opens(line) \/ line.dir = "NUL" \/ Len(p.body) = MaxBlock
         THEN Fail(p, "InvalidInlineBlock")
         ELSE [p EXCEPT !.body = Append(@, line)]

One(line) == Len(line.args) = 1


\* remote <ip> <port> [<protocol>], once, and with the address of the list.
Remote(p, line) ==
  CASE p.remote # <<>> \/ Len(line.args) \notin 2..3 -> Fail(p, "InvalidRemote")
    [] OTHER ->
       IF line.args[1] \notin {ExpectedIp, OtherIp} THEN Fail(p, "InvalidRemote")
       ELSE IF line.args[1] # ExpectedIp THEN Fail(p, "RemoteMismatch")
       ELSE IF line.args[2] = "0" THEN Fail(p, "InvalidRemote")
       ELSE IF Len(line.args) = 3 /\ line.args[3] \notin Tcp THEN Fail(p, "UnsupportedProtocol")
       ELSE [p EXCEPT !.remote = SubSeq(line.args, 1, 2)]

Option(p, line, valid) ==
  IF One(line) /\ valid THEN [p EXCEPT !.options = @ \union {line}] ELSE Fail(p, "InvalidValue")

Unless(p, bad, why) == IF bad THEN Fail(p, why) ELSE p

\* Mutant: the form of proto that Render writes is not accepted.
Directive_TcpOnly(p, line) ==
  CASE line.dir = "proto" -> IF line.args = <<"tcp">> THEN [p EXCEPT !.tcp = TRUE]
                             ELSE Fail(p, "UnsupportedProtocol")
    [] line.dir = "dev"    -> [p EXCEPT !.tun = TRUE]
    [] line.dir = "remote" -> Remote(p, line)
    [] line.dir \in Crypto -> Option(p, line, TRUE)
    [] OTHER -> p

\* A line outside the blocks.
Directive(p, line) ==
  CASE line.dir \in Dangerous -> Fail(p, "DangerousDirective")
    [] line.dir = "proto" ->
         IF ~ One(line) THEN Fail(p, "InvalidValue")
         ELSE IF line.args[1] \in Tcp THEN [p EXCEPT !.tcp = TRUE]
         ELSE Fail(p, "UnsupportedProtocol")
    [] line.dir = "dev" ->
         IF line.args = <<"tun">> THEN [p EXCEPT !.tun = TRUE]
         ELSE Fail(p, IF One(line) THEN "InvalidDevice" ELSE "InvalidValue")
    [] line.dir = "dev-type" ->
         Unless(p, line.args # <<"tun">>, IF One(line) THEN "InvalidDevice" ELSE "InvalidValue")
    [] line.dir = "remote" -> Remote(p, line)
    [] line.dir \in Block \union {"pkcs12"} -> Fail(p, "ExternalFile")
    [] line.dir \in Crypto -> Option(p, line, line.args # <<"unsafe">>)
    [] line.dir = "key-direction" -> Option(p, line, line.args[1] \in {"0", "1"})
    [] line.dir = "remote-cert-tls" -> Option(p, line, line.args = <<"server">>)
    [] line.dir \in Flags -> Unless(p, line.args # <<>>, "InvalidValue")
    [] line.dir \in Scalars -> Unless(p, ~ One(line) \/ line.args = <<"unsafe">>, "InvalidValue")
    [] line = L("setenv", <<"opt", "block-outside-dns">>) -> p
    [] OTHER -> Fail(p, "UnsupportedDirective")

Step(p, line) ==
  CASE p.err # "none"  -> p
    [] p.err = "none" /\ p.open # "none" -> InBlock(p, line)
    [] p.err = "none" /\ p.open = "none" /\ Opens(line) ->
         IF line.args[1] \in Block THEN [p EXCEPT !.open = line.args[1]]
         ELSE Fail(p, "UnsupportedDirective")
    [] p.err = "none" /\ p.open = "none" /\ line.dir \in {"", "#"} -> p
    [] OTHER -> Directive(p, line)

\* The checks after the last line.
Finish(p) ==
  IF p.err # "none" THEN p
  ELSE IF p.open # "none" THEN Fail(p, "InvalidInlineBlock")
  ELSE IF ~ p.tcp THEN Fail(p, "UnsupportedProtocol")
  ELSE IF ~ p.tun THEN Fail(p, "InvalidDevice")
  ELSE IF p.remote = <<>> THEN Fail(p, "InvalidRemote")
  ELSE Unless(p, ~ {"ca", "cert", "key"} \subseteq DOMAIN p.blocks, "MissingInlineBlock")

Accepted(p) == Finish(p).err = "none"

ReadLine(line) ==
  /\ profile.err = "none"
  /\ profile' = Step(profile, line)

Next ==
  \/ /\ profile.open = "none"
     /\ \E line \in Line : ReadLine(line)
  \/ /\ profile.open # "none"
     /\ \E line \in BlockLine \union {L("</>", <<profile.open>>)} : ReadLine(line)

Spec == Init /\ [][Next]_profile

-----------------------------------------------------------------------------
(* Rendering and reading it again *)

\* The text of an accepted profile.
Render(p) ==
  <<L("client", <<>>), L("dev", <<"tun">>), L("proto", <<"tcp-client">>),
    L("remote", Append(p.remote, "tcp-client")), L("nobind", <<>>), L("persist-key", <<>>),
    L("persist-tun", <<>>), L("auth-nocache", <<>>), L("verb", <<"3">>)>>
    \o (IF L("remote-cert-tls", <<"server">>) \in p.options THEN <<>>
        ELSE <<L("remote-cert-tls", <<"server">>)>>)
    \o SelectSeq(OptionOrder, LAMBDA o : o \in p.options)
    \o FlattenSeq([i \in DOMAIN Blocks |->
         IF Blocks[i] \in DOMAIN p.blocks
         THEN <<L("<>", <<Blocks[i]>>)>> \o p.blocks[Blocks[i]] \o <<L("</>", <<Blocks[i]>>)>>
         ELSE <<>>])

\* sanitize_openvpn on a whole text.
Sanitize(text) == Finish(FoldLeft(Step, Fresh, text))

\* build_runtime_profile: what netd gives to OpenVPN.
RuntimeProfile(text) ==
  text \o <<L("socks-proxy", <<"upstream">>), L("management", <<"socket", "unix">>),
            L("management-hold", <<>>), L("management-query-passwords", <<>>)>>

-----------------------------------------------------------------------------
(* The Mihomo export *)

\* Mutant: the last match instead of the first.
Scalar_Last(text, dir) ==
  LET found == SelectSeq(text, LAMBDA l : l.dir = dir /\ l.args # <<>>)
  IN IF found = <<>> THEN <<>> ELSE found[Len(found)].args

\* The values of the first line that starts with the directive, wherever it is.
Scalar(text, dir) ==
  LET found == SelectSeq(text, LAMBDA l : l.dir = dir /\ l.args # <<>>)
  IN IF found = <<>> THEN <<>> ELSE found[1].args

\* The lines between the first <name> and the next </name>.
InlineBlock(text, name) ==
  IF ~ Contains(text, L("<>", <<name>>)) THEN <<>>
  ELSE LET rest == SubSeq(text, SelectInSeq(text, LAMBDA l : l = L("<>", <<name>>)) + 1, Len(text))
       IN SubSeq(rest, 1, SelectInSeq(rest, LAMBDA l : l = L("</>", <<name>>)) - 1)

MihomoCipher == {"AES-CBC", "AES-128-CBC", "AES-192-CBC", "AES-256-CBC", "AES-128-GCM",
                 "AES-192-GCM", "AES-256-GCM", "CHACHA20-POLY1305"}
MihomoAuth   == {"MD5", "SHA1", "SHA256", "SHA384", "SHA512"}

DataCiphers(text) ==
  LET value == Scalar(text, "data-ciphers") IN IF value = <<>> THEN <<>> ELSE Pieces[value[1]]

\* Whether the export can express the profile.
Exportable(text) ==
  /\ Range(Scalar(text, "cipher")) \subseteq MihomoCipher
  /\ Range(DataCiphers(text)) \subseteq MihomoCipher
  /\ Range(Scalar(text, "data-ciphers-fallback")) \subseteq MihomoCipher
  /\ Range(Scalar(text, "auth")) \subseteq MihomoAuth
  /\ InlineBlock(text, "tls-auth") = <<>> \/ InlineBlock(text, "tls-crypt") = <<>>
  /\ \A b \in {"ca", "cert", "key"} : InlineBlock(text, b) # <<>>

-----------------------------------------------------------------------------
(* Properties *)

\* netd agrees with the control plane: sanitizing the rendered text again, as
\* WorkerManager::start does, accepts it with the same endpoint, blocks and
\* options.  Only the line remote-cert-tls, added in front of the options the
\* first time, may move to its place among them, so the two digests differ.
\* (Lengths are left out: rendering adds lines of its own, and a download just
\* below MAX_PROFILE_BYTES can be refused the second time.)
NetdAgrees ==
  Accepted(profile) =>
    Sanitize(Render(profile)) =
      [profile EXCEPT !.options = @ \union {L("remote-cert-tls", <<"server">>)}]

\* The lines OpenVPN reads as directives, outside the inline blocks.
TopLevel(text) ==
  FoldLeft(LAMBDA s, l :
             CASE s.open = "none" /\ l.dir = "<>" -> [s EXCEPT !.open = l.args[1]]
               [] s.open # "none" /\ l = L("</>", <<s.open>>) -> [s EXCEPT !.open = "none"]
               [] s.open # "none" /\ l # L("</>", <<s.open>>) -> s
               [] OTHER -> [s EXCEPT !.lines = Append(@, l)],
           [open |-> "none", lines |-> <<>>], text).lines


\* The export reads the text with simpler rules than the sanitizer.  It still
\* takes every inline block whole, and every value from an option if there is
\* one; only a directive that the profile lacks can be read from a block.
ExportFaithful ==
  Accepted(profile) =>
    LET text == Render(profile)
    IN /\ \A b \in Block : InlineBlock(text, b) =
            IF b \in DOMAIN profile.blocks THEN profile.blocks[b] ELSE <<>>
       /\ \A d \in Crypto \union {"key-direction"} :
            LET mine == {o \in profile.options : o.dir = d}
            IN mine # {} => Scalar(text, d) \in {o.args : o \in mine}
       /\ Exportable(text) => \A o \in profile.options :
            o.dir = "cipher" => \E c \in profile.options : c.dir = "cipher" /\ c.args[1] \in MihomoCipher
=============================================================================
