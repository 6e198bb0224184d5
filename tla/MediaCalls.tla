----------------------------- MODULE MediaCalls -----------------------------
(***************************************************************************)
(* The calls that upload (socket.py, media.py): a message with media, a      *)
(* file, a cover photo, the images of a product; and the request that the    *)
(* sender of a message upload its media again.                              *)
(***************************************************************************)
EXTENDS BusinessCalls

Uploads == {"media", "upload", "cover"} \cup Mutations

\* The requests for which upload_raw_media is used: no key, and less is asked of the answer.
Raw(op) == op.do \in Mutations \/ (op.do = "upload" /\ op.raw)

\* upload_media and upload_raw_media go from host to host.
Upload(c, hosts, fields) ==
  Set(c, fields ++ [pc |-> "upload", hosts |-> hosts, alone |-> hosts, node |-> None, answer |-> None])

\* _get_media_conn: the connection is used until a minute before its end.
BeginUpload(c, force, fields) ==
  IF conn # None /\ conn.until > now /\ ~force
  THEN conn' = conn /\ Upload(c, conn.hosts, fields)
  ELSE /\ conn' = IF force THEN None ELSE conn
       /\ Ask(c, Query("w:m", None), "conn", fields)

\* _prepare_product_images skips those that are on the server already.
ToUpload(images) == Picked(images, {i \in DOMAIN images : images[i] = "new"})

\* A source that cannot be sent raises before anything is asked.
upload_call(c) ==
  LET op == plan.does[c]
      images == IF op.do \in Mutations THEN ToUpload(op.images) ELSE <<"new">>
      read == IF op.do \in {"media", "upload"} THEN read_media_payload(op.type, op.mimetype) ELSE "ok"
  IN /\ Begins(c, Uploads)
     /\ IF read # "ok" THEN Ends(c, read, NoChange) /\ conn' = conn
        ELSE IF images = << >> THEN MutateProduct(c, NoChange) /\ conn' = conn
        ELSE BeginUpload(c, FALSE, [todo |-> images])
     /\ UNCHANGED <<now, fixed, creds, disk, rows, tokens, stored, server, bounds>>

refresh_media_conn(c) ==
  LET op == plan.does[c]
  IN /\ Begins(c, {"refresh_conn"})
     /\ IF conn # None /\ conn.until > now /\ ~op.force THEN Ends(c, "ok", NoChange) /\ conn' = conn
        ELSE conn' = (IF op.force THEN None ELSE conn) /\ Ask(c, Query("w:m", None), "conn", NoChange)
     /\ UNCHANGED <<now, fixed, creds, disk, rows, tokens, stored, server, bounds>>

AnswerConn(c) ==
  /\ Waiting(c, "w:m")
  /\ \E hosts \in {<< >>, <<"first", "second">>}, ttl \in {Margin, Margin + 1} :
       Answers(c, [hosts |-> hosts, ttl |-> ttl, at |-> now], NoChange)
  /\ UNCHANGED <<now, fixed, local, server, bounds>>

\* The answer counts from when it is read, not from when it was given.
ConnRead(c) ==
  LET parsed == parse_media_conn(call[c].answer)
  IN /\ Granting(c) /\ call[c].step = "conn"
     /\ IF parsed = None THEN Ends(c, "MediaError", NoChange) /\ conn' = conn
        ELSE /\ conn' = [hosts |-> parsed.hosts, until |-> CachedUntil(parsed, now)]
             /\ IF plan.does[c].do = "refresh_conn" THEN Ends(c, "ok", NoChange) ELSE Upload(c, parsed.hosts, NoChange)
     /\ UNCHANGED <<now, fixed, creds, disk, rows, tokens, stored, server, bounds>>

\* The payloads a host may answer with.
Payloads == {[url |-> "url", path |-> "path", fbid |-> "fbid"], [url |-> "url", path |-> None, fbid |-> None],
             [url |-> None, path |-> None, fbid |-> "fbid"]}

\* A host takes it, or the next is tried: the host fails, or its answer lacks what is needed.
UploadTried(c) ==
  LET op == plan.does[c]
      hosts == call[c].alone
      left == Tail(call[c].todo)
  IN /\ call[c].pc = "upload"
     /\ \/ /\ \E payload \in Payloads \cup {None} : ~Accepted(Raw(op), payload)
           /\ IF Len(hosts) = 1 THEN Ends(c, "MediaError", NoChange) ELSE Set(c, [alone |-> Tail(hosts)])
        \/ \E payload \in Payloads :
             /\ Accepted(Raw(op), payload)
             /\ CASE op.do = "media" ->
                       IF media_message(op.type, payload) = None THEN Ends(c, "AttributeError", NoChange)
                       ELSE Set(c, [pc |-> "send", got |-> <<media_message(op.type, payload)>>])
                  [] op.do = "upload" -> Ends(c, "ok", [got |-> <<payload>>])
                  [] op.do = "cover" ->
                       IF payload.fbid = None THEN Ends(c, "MediaError", NoChange)
                       ELSE Ask(c, Query("cover", payload.fbid), "cover", NoChange)
                  [] op.do \in Mutations /\ left # << >> -> Set(c, [todo |-> left, alone |-> call[c].hosts])
                  [] OTHER -> MutateProduct(c, [todo |-> << >>])
     /\ UNCHANGED <<now, fixed, local, server, bounds>>

\* The message is sent, or it is not; the cover photo is set.
UploadUsed(c) ==
  /\ \/ call[c].pc = "send" /\ plan.does[c].do = "media" /\ \E how \in {"ok", "SendError"} : Ends(c, how, NoChange)
     \/ Granting(c) /\ call[c].step = "cover" /\ Ends(c, "ok", NoChange)
     \/ Refused(c) /\ plan.does[c].do \in Uploads \cup {"refresh_conn"} /\ Ends(c, "IQError", NoChange)
  /\ UNCHANGED <<now, fixed, local, server, bounds>>

SetCover(c) ==
  /\ Waiting(c, "cover") /\ Answers(c, NoChange, NoChange)
  /\ UNCHANGED <<now, fixed, local, server, bounds>>

-----------------------------------------------------------------------------
(* update_media_message: the request is a message, its answer an event.    *)

update_media_message(c) ==
  LET op == plan.does[c]
  IN /\ Begins(c, {"retry"})
     /\ IF op.key = None \/ op.id = None THEN Ends(c, "MediaError", NoChange)
        ELSE Set(c, [pc |-> "media", due |-> now + Timeout])
     /\ UNCHANGED <<now, fixed, local, server, bounds>>

\* Mutant: it takes any.
TakesEvent_Any(c, event) == call[c].pc = "media"

\* The listener takes the first event about its message.
TakesEvent(c, event) == call[c].pc = "media" /\ event.id = plan.does[c].id

\* The sender of a message somebody waits for has uploaded it again, or could not.
Events ==
  {event \in [id : {plan.does[c].id : c \in {x \in Callers : call[x].pc = "media"}},
              error : {None, "refused"}, result : {"SUCCESS", "NOT_FOUND"}, path : {None, "new_path"}] :
     event.error # None => event.path = None}

KeyOf(id) == LET asks == {c \in Callers : call[c].pc = "media" /\ plan.does[c].id = id} IN plan.does[CHOOSE c \in asks : TRUE].key

\* The event made of the answer.
Heard(event) ==
  decode_media_retry_node(
    [id |-> event.id, error |-> event.error,
     media |-> IF event.error # None THEN None
               ELSE [key |-> KeyOf(event.id), id |-> event.id, result |-> event.result, path |-> event.path]])

MediaRetried ==
  \E event \in Events :
    /\ call' = [c \in Callers |->
         IF TakesEvent(c, Heard(event))
         THEN [call[c] EXCEPT !.pc = "done", !.result = RetryResult(Heard(event), plan.does[c].key, plan.does[c].id)]
         ELSE call[c]]
    /\ UNCHANGED <<now, fixed, local, server, bounds>>

\* The call reads the socket whether or not a receive task does: with one the library
\* refuses the second reader.  Without one it reads until its time is up.
MediaFails(c) ==
  /\ call[c].pc = "media"
  /\ \/ loop /\ Ends(c, "RuntimeError", NoChange)
     \/ ~loop /\ now >= call[c].due /\ Ends(c, "QueryTimeoutError", [cut |-> TRUE])
  /\ UNCHANGED <<now, fixed, local, server, bounds>>
=============================================================================
