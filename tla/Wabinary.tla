------------------------------ MODULE Wabinary ------------------------------
(***************************************************************************)
(* The binary form of nodes (wabinary.py and the token tables).             *)
(*                                                                         *)
(* A string is a name (a token, or a text of some length), a sequence of    *)
(* characters, or an address.  A character is its digit, 10 to 15 for A to  *)
(* F, or one of the others.  The bytes of a text are one cell of a stream,  *)
(* a record; the other cells are numbers.                                  *)
(***************************************************************************)
EXTENDS Integers, Sequences, SequencesExt

CONSTANTS None,
          Tokens,  \* names with a token: [dict, index], where dict may be None
          Bytes    \* the length of the other names

Dash == 20
Dot == 21
Other == 22

Name(n) == [t |-> "name", name |-> n]
Chars(cs) == [t |-> "chars", chars |-> cs]
Address(user, agent, device, server) ==
  [t |-> "jid", user |-> user, agent |-> agent, device |-> device, server |-> server]

LIST_EMPTY == 0
DICTIONARY_0 == 236
INTEROP_JID == 245
FB_JID == 246
AD_JID == 247
LIST_8 == 248
LIST_16 == 249
JID_PAIR == 250
HEX_8 == 251
BINARY_8 == 252
BINARY_20 == 253
BINARY_32 == 254
NIBBLE_8 == 255
PACKED_MAX == 127

\* The lowest bytes of a number, the highest first.
Big(n, width) == [k \in 1 .. width |-> (n \div 256 ^ (width - k)) % 256]

-----------------------------------------------------------------------------
(* Writing                                                                 *)

write_list_start(size) ==
  IF size = 0 THEN <<LIST_EMPTY>>
  ELSE IF size < 256 THEN <<LIST_8, size>>
  ELSE <<LIST_16>> \o Big(size, 2)

write_byte_length(length) ==
  IF length >= 2 ^ 20 THEN <<BINARY_32>> \o Big(length, 4)
  ELSE IF length >= 256 THEN <<BINARY_20>> \o Big(length, 3)
  ELSE <<BINARY_8, length>>

Text(v, length) ==
  write_byte_length(length) \o (IF length = 0 THEN << >> ELSE <<[text |-> v, length |-> length]>>)

is_nibble(cs) == Len(cs) \in 1 .. PACKED_MAX /\ \A k \in DOMAIN cs : cs[k] \in 0 .. 9 \cup {Dash, Dot}
is_hex(cs) == Len(cs) \in 1 .. PACKED_MAX /\ \A k \in DOMAIN cs : cs[k] \in 0 .. 15

pack(c) == CASE c = Dash -> 10 [] c = Dot -> 11 [] OTHER -> c

\* Mutant: an odd length is not marked.
write_packed_bytes_even(cs, tag) ==
  LET half(k) == IF k > Len(cs) THEN 15 ELSE pack(cs[k])
      rounded == (Len(cs) + 1) \div 2
  IN <<tag, rounded>> \o [k \in 1 .. rounded |-> 16 * half(2 * k - 1) + half(2 * k)]

\* Two characters a byte; the half that is left over is filled with 15.
write_packed_bytes(cs, tag) ==
  LET n == Len(cs)
      half(k) == IF k > n THEN 15 ELSE pack(cs[k])
      rounded == (n + 1) \div 2
  IN <<tag, IF n % 2 = 1 THEN rounded + 128 ELSE rounded>>
     \o [k \in 1 .. rounded |-> 16 * half(2 * k - 1) + half(2 * k)]

\* A user with its agent is a text like any other.
write_user(user, agent) ==
  IF agent # None THEN Text([user |-> user, agent |-> agent], 9)
  ELSE IF user.t = "name" THEN Text(user, Bytes[user.name])
  ELSE IF is_nibble(user.chars) THEN write_packed_bytes(user.chars, NIBBLE_8)
  ELSE IF is_hex(user.chars) THEN write_packed_bytes(user.chars, HEX_8)
  ELSE Text(user, Len(user.chars))

write_token(token) ==
  IF token.dict = None THEN <<token.index>> ELSE <<DICTIONARY_0 + token.dict, token.index>>

write_name(n) == IF n \in DOMAIN Tokens THEN write_token(Tokens[n]) ELSE Text(Name(n), Bytes[n])

domain_type(a) ==
  CASE a.server = "lid" -> 1
    [] a.server = "hosted" -> 128
    [] a.server = "hosted.lid" -> 129
    [] OTHER -> IF a.agent = None THEN 0 ELSE a.agent

\* Addresses that only the server writes.
write_server_string(v) ==
  IF v.t = "fb" THEN <<FB_JID>> \o write_user(v.user, None) \o Big(v.device, 2) \o write_name(v.server)
  ELSE <<INTEROP_JID>> \o write_user(v.user, None) \o Big(v.device, 2) \o Big(v.integrator, 2)
       \o write_name(v.server)

\* An address with a device is AD_JID: its server and agent become the domain type.
write_string(v) ==
  CASE v.t = "name" -> write_name(v.name)
    [] v.t = "chars" -> write_user(v, None)
    [] v.t = "jid" /\ v.device # None -> <<AD_JID, domain_type(v), v.device>> \o write_user(v.user, None)
    [] v.t \in {"fb", "interop"} -> write_server_string(v)
    [] OTHER -> <<JID_PAIR>> \o write_user(v.user, v.agent) \o write_name(v.server)

\* A byte holds each number of an address, and a larger one raises.
Writable(v) == v.t = "jid" /\ v.device # None => domain_type(v) <= 255 /\ v.device <= 255

\* The strings of a sequence, one after the other.
RECURSIVE Joined(_)
Joined(strings) ==
  LET n == Len(strings) IN
  IF n = 0 THEN << >> ELSE IF n = 1 THEN strings[1]
  ELSE Joined(SubSeq(strings, 1, n \div 2)) \o Joined(SubSeq(strings, n \div 2 + 1, n))

RECURSIVE Strings(_)
Strings(node) ==
  ({node.attrs[k].value : k \in DOMAIN node.attrs} \ {None})
  \cup CASE node.content.c = "str" -> {node.content.v}
         [] node.content.c = "list" -> UNION {Strings(node.content.nodes[k]) : k \in DOMAIN node.content.nodes}
         [] OTHER -> {}

RECURSIVE write_node(_)
write_node(node) ==
  LET attrs == SelectSeq(node.attrs, LAMBDA a : a.value # None)
  IN write_list_start(1 + 2 * Len(attrs) + (IF node.content.c = "none" THEN 0 ELSE 1))
     \o write_name(node.tag)
     \o Joined([k \in DOMAIN attrs |-> write_name(attrs[k].key) \o write_string(attrs[k].value)])
     \o CASE node.content.c = "none" -> << >>
          [] node.content.c = "str" -> write_string(node.content.v)
          [] node.content.c = "bytes" -> Text(node.content.v, node.content.length)
          [] OTHER -> write_list_start(Len(node.content.nodes))
                      \o Joined([k \in DOMAIN node.content.nodes |-> write_node(node.content.nodes[k])])

-----------------------------------------------------------------------------
(* Reading: a value and the place after it                                 *)

At(v, i) == [v |-> v, i |-> i]

\* Numbers of some bytes, the highest first.
Number(s, i, width) ==
  FoldLeft(LAMBDA n, byte : 256 * n + byte, 0, SubSeq(s, i, i + width - 1))

read_list_size(s, i) ==
  CASE s[i] = LIST_EMPTY -> At(0, i + 1)
    [] s[i] = LIST_8 -> At(s[i + 1], i + 2)
    [] s[i] = LIST_16 -> At(Number(s, i + 1, 2), i + 3)

is_list_tag(tag) == tag \in {LIST_EMPTY, LIST_8, LIST_16}
is_binary_tag(tag) == tag \in {BINARY_8, BINARY_20, BINARY_32}

read_bytes(s, i) ==
  LET width == CASE s[i] = BINARY_8 -> 1 [] s[i] = BINARY_20 -> 3 [] s[i] = BINARY_32 -> 4
      length == Number(s, i + 1, width)
  IN IF length = 0 THEN At(Chars(<< >>), i + 1 + width) ELSE At(s[i + 1 + width].text, i + 2 + width)

unpack(tag, half) ==
  IF tag = HEX_8 THEN half ELSE CASE half = 10 -> Dash [] half = 11 -> Dot [] OTHER -> half

read_packed8(s, i) ==
  LET tag == s[i]
      size == s[i + 1] % 128
      chars == [k \in 1 .. 2 * size |->
                  unpack(tag, IF k % 2 = 1 THEN s[i + 1 + (k + 1) \div 2] \div 16 ELSE s[i + 1 + k \div 2] % 16)]
  IN At(Chars(IF s[i + 1] >= 128 THEN SubSeq(chars, 1, 2 * size - 1) ELSE chars), i + 2 + size)

\* A string that is not an address.
read_simple(s, i) ==
  CASE s[i] \in {NIBBLE_8, HEX_8} -> read_packed8(s, i)
    [] is_binary_tag(s[i]) -> read_bytes(s, i)
    [] s[i] = LIST_EMPTY -> At(Chars(<< >>), i + 1)
    [] s[i] \in DICTIONARY_0 .. DICTIONARY_0 + 3 ->
         At(Name(CHOOSE n \in DOMAIN Tokens :
                   Tokens[n] = [dict |-> s[i] - DICTIONARY_0, index |-> s[i + 1]]), i + 2)
    [] OTHER -> At(Name(CHOOSE n \in DOMAIN Tokens : Tokens[n] = [dict |-> None, index |-> s[i]]), i + 1)

server_of(type) ==
  CASE type = 1 -> "lid" [] type = 128 -> "hosted" [] type = 129 -> "hosted.lid" [] OTHER -> "s.whatsapp.net"

\* The user part of a pair is split where the text has an agent; a device 0 is not shown.
read_string(s, i) ==
  CASE s[i] = JID_PAIR ->
         LET user == read_simple(s, i + 1)
             server == read_simple(s, user.i)
             joined == "agent" \in DOMAIN user.v
         IN At(Address(IF joined THEN user.v.user ELSE user.v, IF joined THEN user.v.agent ELSE None,
                       None, server.v.name), server.i)
    [] s[i] = AD_JID ->
         LET user == read_simple(s, i + 3)
         IN At(Address(user.v, None, IF s[i + 2] = 0 THEN None ELSE s[i + 2], server_of(s[i + 1])), user.i)
    [] s[i] = FB_JID ->
         LET user == read_simple(s, i + 1)
             server == read_simple(s, user.i + 2)
         IN At([t |-> "fb", user |-> user.v, device |-> Number(s, user.i, 2), server |-> server.v.name], server.i)
    [] s[i] = INTEROP_JID ->
         LET user == read_simple(s, i + 1)
             server == read_simple(s, user.i + 4)
         IN At([t |-> "interop", user |-> user.v, device |-> Number(s, user.i, 2),
                integrator |-> Number(s, user.i + 2, 2), server |-> server.v.name], server.i)
    [] OTHER -> read_simple(s, i)

RECURSIVE read_node(_, _)
RECURSIVE read_nodes(_, _, _)
RECURSIVE read_attrs(_, _, _)

\* Many of them, each after the last: half of them and then the others.
read_nodes(s, i, n) ==
  IF n = 0 THEN At(<< >>, i)
  ELSE IF n = 1 THEN LET node == read_node(s, i) IN At(<<node.v>>, node.i)
  ELSE LET first == read_nodes(s, i, n \div 2)
           others == read_nodes(s, first.i, n - n \div 2)
       IN At(first.v \o others.v, others.i)

read_attrs(s, i, n) ==
  IF n = 0 THEN At(<< >>, i)
  ELSE LET key == read_simple(s, i)
           value == read_string(s, key.i)
           others == read_attrs(s, value.i, n - 1)
       IN At(<<[key |-> key.v.name, value |-> value.v]>> \o others.v, others.i)

read_content(s, i) ==
  IF is_list_tag(s[i])
  THEN LET size == read_list_size(s, i)
           nodes == read_nodes(s, size.i, size.v)
       IN At([c |-> "list", nodes |-> nodes.v], nodes.i)
  ELSE IF is_binary_tag(s[i]) THEN LET bytes == read_bytes(s, i) IN At([c |-> "bytes", v |-> bytes.v], bytes.i)
  ELSE LET v == read_string(s, i) IN At([c |-> "str", v |-> v.v], v.i)

read_node(s, i) ==
  LET size == read_list_size(s, i)
      tag == read_simple(s, size.i)
      attrs == read_attrs(s, tag.i, (size.v - 1) \div 2)
      content == IF size.v % 2 = 1 THEN At([c |-> "none"], attrs.i) ELSE read_content(s, attrs.i)
  IN At([tag |-> tag.v.name, attrs |-> attrs.v, content |-> content.v], content.i)

encode_binary_node(node) == IF \A v \in Strings(node) : Writable(v) THEN write_node(node) ELSE None
decode_binary_node(stream) == read_node(stream, 1)
=============================================================================
