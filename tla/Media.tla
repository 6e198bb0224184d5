------------------------------- MODULE Media -------------------------------
(***************************************************************************)
(* Media (media.py): the media connection, what a host answers to an         *)
(* upload, and the answer to a request that the sender upload it again.     *)
(***************************************************************************)
EXTENDS Jids

CONSTANT Margin   \* how long before its end a media connection is given up

\* Raises MediaError without hosts; otherwise the connection and its time to live.
parse_media_conn(answer) == IF answer.hosts = << >> THEN None ELSE [hosts |-> answer.hosts, ttl |-> answer.ttl]

CachedUntil(parsed, now) == now + (IF parsed.ttl > Margin THEN parsed.ttl - Margin ELSE 0)

\* What a host answers: [url, path, fbid], None where absent, or None if it fails.
Accepted(raw, payload) ==
  /\ payload # None
  /\ IF raw THEN payload.url # None \/ payload.path # None
     ELSE (payload.url # None /\ payload.path # None) \/ payload.fbid # None

\* What a payload may be for, and what can be guessed to be its content: one for anything else
\* raises, and so does one of another kind whose content is not given.
MediaTypes == {"image", "video", "audio", "document", "sticker", "gif", "ptt", "biz-cover-photo",
               "product-catalog-image", "md-app-state"}
DefaultTypes == {"image", "video", "audio", "document", "sticker", "biz-cover-photo"}
read_media_payload(type, mimetype) ==
  IF type \notin MediaTypes THEN "MediaError"
  ELSE IF mimetype = None /\ type \notin DefaultTypes THEN "KeyError" ELSE "ok"

\* The message for what was uploaded, without a path if the host gave none; the other types
\* have none, which is found out after the upload.
media_message(type, payload) ==
  IF type \notin {"image", "video", "audio", "document", "sticker"} THEN None
  ELSE [type |-> type, path |-> payload.path, url |-> payload.url]

\* The event made of the server's answer: its error, or what it says encrypted.
decode_media_retry_node(node) ==
  CASE node.error # None -> [id |-> node.id, error |-> "not_uploaded", media |-> None]
    [] node.error = None /\ node.media = None -> [id |-> node.id, error |-> "no_ciphertext", media |-> None]
    [] OTHER -> [id |-> node.id, error |-> None, media |-> node.media]

\* It is encrypted for one message: with the key of its media and its id.
decrypt_media_retry_data(media, key, id) == IF media.key = key /\ media.id = id THEN media ELSE None

\* How update_media_message ends, and the path the message has then.
RetryResult(event, key, id) ==
  LET retry == decrypt_media_retry_data(event.media, key, id)
  IN CASE event.error # None -> "ValueError"
       [] event.error = None /\ retry = None -> "InvalidTag"
       [] event.error = None /\ retry # None /\ (retry.result # "SUCCESS" \/ retry.path = None) -> "MediaError"
       [] OTHER -> "ok"
=============================================================================
