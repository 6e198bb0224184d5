-------------------------------- MODULE Wire --------------------------------
(***************************************************************************)
(* The connection below the nodes (noise.py, client.py and wabinary.py):    *)
(* the Noise handshake, the transport's frames in whatever pieces the       *)
(* network delivers them, the nodes in them, and the wait for the login.    *)
(*                                                                         *)
(* Keys and hashes are terms.  A frame in the network is four cells, two of *)
(* its length and two of its ciphertext.                                   *)
(***************************************************************************)
EXTENDS Naturals, Sequences, FiniteSets, SequencesExt

CONSTANTS None,
          ServerNodes, \* what the server may send once logged in
          Carried,     \* what is read of each of them, once it was written
          MaxSent,     \* bound: frames of the server
          MaxDamaged,  \* bound: frames that do not decrypt
          MaxOutbox    \* bound: frames of the client, when it sends one

ASSUME WireAssumption == {MaxSent, MaxDamaged, MaxOutbox} \subseteq Nat

\* Python's None, where a record may be.
Nothing == << >>

Hellos == {"good", "no_hello", "no_chain", "bad_leaf", "bad_intermediate", "bad_issuer"}
\* What the server sends: kinds that the login knows, a node that cannot be decoded, and,
\* after the success and as its last, a node of ServerNodes.
Kinds == {"success", "ping", "routing", "failure", "other", "odd", "node"}

VARIABLES
  state,     \* of the client: "new", "hello", "finish", "open", "failed", "closed"
  noise,     \* its NoiseHandshake
  peer,      \* the server's side of it
  hello,     \* the server's answer to the hello
  finish,    \* clientFinish on its way
  login,     \* whether wait_for_success is done: "waiting", "success", "raised"
  sent,      \* what the server sent: kinds, and nodes
  damaged,   \* frames that the network or the server spoiled
  cells,     \* cells on their way
  in_bytes,  \* cells that were read and not consumed
  reads,     \* what each read decrypted, and whether it raised
  seen,      \* nodes that wait_for_success handled, in order
  got,       \* nodes returned to the dispatcher, in order
  outbox     \* frames of the client
wireVars == <<state, noise, peer, hello, finish, login, sent, damaged, cells, in_bytes, reads, seen, got, outbox>>

-----------------------------------------------------------------------------
(* noise.py                                                                *)

H(hash, data) == <<"hash", hash, data>>
DH(a, b) == <<"dh", {a, b}>>
Sealed(key, counter, ad, plain) == [key |-> key, counter |-> counter, ad |-> ad, plain |-> plain]

NOISE_MODE == "Noise_XX"
NOISE_WA_HEADER == "WA"

authenticate(n, data) == [n EXCEPT !.hash = H(@, data)]

mix_into_key(n, data) ==
  [n EXCEPT !.salt = <<"write", n.salt, data>>, !.key = <<"read", n.salt, data>>, !.counter = 0]

\* What is sealed goes into the hash, and counts.
Seal(n, plain) == Sealed(n.key, n.counter, n.hash, plain)
Advance(n, sealed) == authenticate([n EXCEPT !.counter = @ + 1], sealed)
Opens(n, sealed) == sealed.key = n.key /\ sealed.counter = n.counter /\ sealed.ad = n.hash

NoiseHandshake(ephemeral) ==
  LET n == [hash |-> NOISE_MODE, salt |-> NOISE_MODE, key |-> NOISE_MODE, counter |-> 0,
            sent_intro |-> FALSE, transport |-> Nothing]
  IN authenticate(authenticate(n, NOISE_WA_HEADER), ephemeral)

\* The server's keys, its certificate, and our static key.  Nothing where it raises.
process_server_hello(n, answer) ==
  IF answer.kind = "no_hello" THEN Nothing
  ELSE LET a == mix_into_key(authenticate(n, answer.ephemeral), DH("ce", answer.ephemeral))
       IN IF ~Opens(a, answer.static) THEN Nothing
          ELSE LET b == mix_into_key(Advance(a, answer.static), DH("ce", answer.static.plain))
               IN IF ~Opens(b, answer.payload) \/ answer.kind # "good" THEN Nothing
                  ELSE LET c == Advance(b, answer.payload)
                           static == Seal(c, "cs")
                       IN [noise |-> mix_into_key(Advance(c, static), DH("cs", answer.ephemeral)),
                           static |-> static]

\* Mutant: the halves the other way round.
finish_init_swapped(n) ==
  [n EXCEPT !.hash = None, !.transport = [write |-> <<"read", n.salt, "">>, read |-> <<"write", n.salt, "">>,
                                          write_counter |-> 0, read_counter |-> 0]]

\* The two halves of the last derivation; the hash is not needed any more; the server has them the other way round.
finish_init(n) ==
  [n EXCEPT !.hash = None, !.transport = [write |-> <<"write", n.salt, "">>, read |-> <<"read", n.salt, "">>,
                           write_counter |-> 0, read_counter |-> 0]]

\* encode_frame: the intro goes before the first frame alone.
TransportSealed(n) ==
  [key |-> n.transport.write, counter |-> n.transport.write_counter, intro |-> ~n.sent_intro]
encode_frame(n) == [n EXCEPT !.sent_intro = TRUE, !.transport.write_counter = @ + 1]

-----------------------------------------------------------------------------
WireInit ==
  /\ state = "new"
  /\ noise = NoiseHandshake("ce")
  /\ peer = NoiseHandshake("ce")
  /\ hello = Nothing
  /\ finish = Nothing
  /\ login = "waiting"
  /\ sent = << >>
  /\ damaged = {}
  /\ cells = << >>
  /\ in_bytes = << >>
  /\ reads = << >>
  /\ seen = << >>
  /\ got = << >>
  /\ outbox = << >>

\* The websocket is open, and the hello with the intro is sent.
client_hello_frame ==
  /\ state = "new"
  /\ state' = "hello"
  /\ noise' = [noise EXCEPT !.sent_intro = TRUE]
  /\ UNCHANGED <<peer, hello, finish, login, sent, damaged, cells, in_bytes, reads, seen, got, outbox>>

\* The server's half of the handshake: ephemeral, static and certificate.
ServerHello(kind) ==
  LET a == mix_into_key(authenticate(peer, "se"), DH("ce", "se"))
      static == Seal(a, "ss")
      b == mix_into_key(Advance(a, static), DH("ce", "ss"))
      payload == Seal(b, "chain")
  IN /\ state = "hello" /\ hello = Nothing
     /\ hello' = [kind |-> kind, ephemeral |-> "se", static |-> static, payload |-> payload]
     /\ peer' = Advance(b, payload)
     /\ UNCHANGED <<state, noise, finish, login, sent, damaged, cells, in_bytes, reads, seen, got, outbox>>

\* connect: the finish is sent and the transport begins, or the websocket is closed.
connect ==
  /\ state = "hello" /\ hello # Nothing
  /\ LET done == process_server_hello(noise, hello) IN
     IF done = Nothing
     THEN /\ state' = "failed"
          /\ UNCHANGED <<noise, finish>>
     ELSE LET payload == Seal(done.noise, "login") IN
          /\ state' = "open"
          /\ finish' = [static |-> done.static, payload |-> payload]
          /\ noise' = finish_init(Advance(done.noise, payload))
  /\ UNCHANGED <<peer, hello, login, sent, damaged, cells, in_bytes, reads, seen, got, outbox>>

ServerFinishes ==
  /\ finish # Nothing /\ peer.transport = Nothing
  /\ Opens(peer, finish.static)
  /\ LET a == mix_into_key(Advance(peer, finish.static), DH(finish.static.plain, "se"))
         b == Advance(a, finish.payload)
     IN /\ Opens(a, finish.payload)
        /\ peer' = [b EXCEPT !.transport = [write |-> <<"read", b.salt, "">>, read |-> <<"write", b.salt, "">>,
                                            write_counter |-> 0, read_counter |-> 0]]
  /\ UNCHANGED <<state, noise, hello, finish, login, sent, damaged, cells, in_bytes, reads, seen, got, outbox>>

-----------------------------------------------------------------------------
(* Frames and nodes                                                        *)

CellsOf(k) == [part \in 1 .. 4 |-> [frame |-> k, part |-> part]]

ServerSends(kind, node, spoiled) ==
  /\ peer.transport # Nothing
  /\ Len(sent) < MaxSent
  /\ \A k \in DOMAIN sent : sent[k].kind # "node"
  /\ spoiled => Cardinality(damaged) < MaxDamaged
  /\ sent' = Append(sent, [kind |-> kind, node |-> node])
  /\ damaged' = IF spoiled THEN damaged \cup {Len(sent')} ELSE damaged
  /\ cells' = cells \o CellsOf(Len(sent'))
  /\ UNCHANGED <<state, noise, peer, hello, finish, login, in_bytes, reads, seen, got, outbox>>

ServerSendsNode ==
  /\ login = "success" /\ Len(sent) = 1
  /\ outbox = << >> /\ cells = << >>
  /\ \E node \in ServerNodes : ServerSends("node", node, FALSE)

\* The frames that are whole, and how many of them decrypt before one does not.
Whole(buffer) == [k \in 1 .. Len(buffer) \div 4 |-> buffer[4 * k].frame]
Decrypts(k, counter) == k \notin damaged /\ counter = k - 1 /\ noise.transport.read = peer.transport.write
Decrypted(frames) ==
  Max({0} \cup {p \in DOMAIN frames :
                  \A k \in 1 .. p : Decrypts(frames[k], noise.transport.read_counter + k - 1)})

\* Mutant: what is not whole is dropped.
\* decode_transport_frames: what is not whole waits for the next bytes.  When a frame does
\* not decrypt, the bytes of all stay, those of the frames before it as well.
decode_transport_frames(bytes) ==
  LET buffer == in_bytes \o bytes
      frames == Whole(buffer)
      p == Decrypted(frames)
  IN [frames |-> SubSeq(frames, 1, p),
      raises |-> p < Len(frames),
      in_bytes |-> IF p < Len(frames) THEN buffer ELSE SubSeq(buffer, 4 * p + 1, Len(buffer))]

DecodedNode(k) ==
  [k |-> k, node |-> IF sent[k].kind # "node" THEN None ELSE Carried[sent[k].node]]

\* wait_for_success: pings are answered and routing is saved, until the success; the rest
\* of its batch is dropped.
Terminal(frames) == {k \in DOMAIN frames : sent[frames[k]].kind \in {"success", "failure"}}
\* Mutant: one node a read.
Handled_first(frames) == IF frames = << >> THEN << >> ELSE <<frames[1]>>
Handled(frames) == IF Terminal(frames) = {} THEN frames ELSE SubSeq(frames, 1, Min(Terminal(frames)))
Pings(frames) == Cardinality({k \in DOMAIN frames : sent[frames[k]].kind = "ping"})

Replies(frames) ==
  LET n == Pings(frames) IN
  outbox' = outbox \o [k \in 1 .. n |-> [TransportSealed(noise) EXCEPT !.counter = @ + k - 1]]

wait_for_success(frames) ==
  LET handled == Handled(frames)
      last == sent[handled[Len(handled)]].kind
  IN /\ seen' = seen \o handled
     /\ login' = IF handled = << >> THEN login
                 ELSE CASE last = "success" -> "success" [] last = "failure" -> "raised" [] OTHER -> login
     /\ Replies(handled)
     /\ UNCHANGED got

Dispatched(frames) ==
  /\ got' = got \o [k \in DOMAIN frames |-> DecodedNode(frames[k])]
  /\ Replies(<< >>)
  /\ UNCHANGED <<seen, login>>

\* receive_nodes: a node that does not decode loses the others of the read.
receive_nodes(size) ==
  /\ state = "open" /\ login # "raised"
  /\ size \in 1 .. Len(cells)
  /\ cells' = SubSeq(cells, size + 1, Len(cells))
  /\ LET decoded == decode_transport_frames(SubSeq(cells, 1, size))
         raises == decoded.raises \/ \E k \in ToSet(decoded.frames) : sent[k].kind = "odd"
     IN /\ in_bytes' = decoded.in_bytes
        /\ reads' = IF decoded.frames = << >> /\ ~raises THEN reads
                    ELSE Append(reads, [frames |-> decoded.frames, raised |-> raises, login |-> login])
        /\ IF raises
           THEN /\ login' = IF login = "waiting" THEN "raised" ELSE login
                /\ Replies(<< >>)
                /\ UNCHANGED <<seen, got>>
           ELSE IF login = "waiting" THEN wait_for_success(decoded.frames)
           ELSE Dispatched(decoded.frames)
        /\ noise' = [noise EXCEPT !.transport.read_counter = @ + Len(decoded.frames),
                                 !.transport.write_counter = Len(outbox')]
  /\ UNCHANGED <<state, peer, hello, finish, sent, damaged>>

send_node ==
  /\ state = "open"
  /\ Len(outbox) < MaxOutbox
  /\ outbox' = Append(outbox, TransportSealed(noise))
  /\ noise' = encode_frame(noise)
  /\ UNCHANGED <<state, peer, hello, finish, login, sent, damaged, cells, in_bytes, reads, seen, got>>

web_close ==
  /\ state \in {"open", "failed"}
  /\ state' = "closed"
  /\ UNCHANGED <<noise, peer, hello, finish, login, sent, damaged, cells, in_bytes, reads, seen, got, outbox>>

-----------------------------------------------------------------------------
WireNext ==
  \/ client_hello_frame \/ connect \/ ServerFinishes
  \/ \E kind \in Hellos : ServerHello(kind)
  \/ \E kind \in Kinds \ {"node"}, spoiled \in BOOLEAN : ServerSends(kind, None, spoiled)
  \/ ServerSendsNode
  \/ \E size \in 1 .. 4 * MaxSent : receive_nodes(size)
  \/ send_node \/ web_close

WireSpec == WireInit /\ [][WireNext]_wireVars

-----------------------------------------------------------------------------
(* Properties                                                              *)

\* An honest server's hello is taken and no other is; both sides then have the same keys,
\* the other way round, and the server can open every frame of the client, in order.
KeysAgree ==
  /\ state = "failed" => hello.kind # "good"
  /\ state = "open" => hello.kind = "good"
  /\ peer.transport # Nothing =>
       /\ noise.transport.write = peer.transport.read
       /\ noise.transport.read = peer.transport.write
  /\ \A k \in DOMAIN outbox : outbox[k] = [key |-> noise.transport.write, counter |-> k - 1, intro |-> FALSE]

\* In whatever pieces the bytes come, each frame is decrypted once and in order, as soon as
\* it is whole; what stops that is a frame that does not decrypt, and it stops it for good.
FramesOnce ==
  LET frames == FlattenSeq([k \in DOMAIN reads |-> reads[k].frames])
      received == (4 * Len(sent) - Len(cells)) \div 4
  IN /\ frames = [k \in 1 .. Len(frames) |-> k]
     /\ Len(frames) = Min({received} \cup {k - 1 : k \in damaged})

\* Frames are decrypted so, and nodes reach the dispatcher in the server's order; one that
\* does not was seen by the login, came in the same read as its success, or in a read that
\* raised.
NodesExplained ==
  /\ FramesOnce
  /\ \A i, j \in DOMAIN got : i < j => got[i].k < got[j].k
  /\ \A r \in DOMAIN reads : \A k \in ToSet(reads[r].frames) :
       \/ reads[r].raised
       \/ reads[r].login = "success" /\ \E i \in DOMAIN got : got[i].k = k
       \/ reads[r].login = "waiting" /\ k \in ToSet(seen)
       \/ reads[r].login = "waiting" /\ \E s \in ToSet(reads[r].frames) :
                                         s < k /\ sent[s].kind \in {"success", "failure"}
=============================================================================
