----------------------------- MODULE WireNodes -----------------------------
(***************************************************************************)
(* The nodes on the wire: Wire carries each as Wabinary writes and reads it. *)
(***************************************************************************)
EXTENDS Wire

CONSTANTS Tokens, Bytes

INSTANCE Wabinary

\* crypto.py and client.py: a node is written, sealed, opened and read.
ReadBack == [node \in ServerNodes |-> decode_binary_node(encode_binary_node(node)).v]
ASSUME CarriedAssumption == Carried = ReadBack

\* The string that is read: the same, but for an address with a device, which keeps its
\* user, its device unless that is 0, and its server if it is one that the wire knows.
SameString(v, w) ==
  IF v.t # "jid" \/ v.device = None THEN v = w
  ELSE /\ w.t = "jid" /\ w.user = v.user
       /\ w.device = (IF v.device = 0 THEN None ELSE v.device)
       /\ v.server \in {"s.whatsapp.net", "lid", "hosted", "hosted.lid"} /\ v.agent = None => w.server = v.server

RECURSIVE SameNode(_, _)
SameNode(n, m) ==
  LET attrs == SelectSeq(n.attrs, LAMBDA a : a.value # None) IN
  /\ n.tag = m.tag
  /\ Len(attrs) = Len(m.attrs)
  /\ \A k \in DOMAIN attrs : attrs[k].key = m.attrs[k].key /\ SameString(attrs[k].value, m.attrs[k].value)
  /\ CASE n.content.c = "none" -> m.content.c = "none"
       [] n.content.c = "bytes" -> m.content.c = "bytes" /\ m.content.v = n.content.v
       \* a text that is no token, number or address comes back as bytes
       [] n.content.c = "str" -> m.content.c \in {"str", "bytes"} /\ SameString(n.content.v, m.content.v)
       [] OTHER -> /\ m.content.c = "list" /\ Len(m.content.nodes) = Len(n.content.nodes)
                   /\ \A k \in DOMAIN n.content.nodes : SameNode(n.content.nodes[k], m.content.nodes[k])

\* A node that was written is read again as it was.
RoundTrip ==
  \A k \in DOMAIN got : got[k].node # None => SameNode(sent[got[k].k].node, got[k].node)
=============================================================================
