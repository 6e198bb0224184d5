------------------------------ MODULE MCCalls ------------------------------
EXTENDS Calls

CONSTANTS A, B   \* the callers

n1 == Jid("n1", "s.whatsapp.net")
n2 == Jid("n2", "s.whatsapp.net")
n3 == Jid("n3", "s.whatsapp.net")
MCNumbers == {n1, n2}
MCLids == {Jid("l1", "lid"), Jid("l2", "lid"), Jid("l3", "lid")}
g1 == Jid("g1", "g.us")
new == Jid("new", "g.us")
MCGroups == {g1, new}
anyLid == CHOOSE l \in MCLids : TRUE

Together(these, those, time, hands, ends) ==
  {[does |-> [c \in {A, B} |-> IF c = A THEN x ELSE y], named |-> <<"cup">>, ticks |-> time, moves |-> hands, crashes |-> ends] :
     x \in these, y \in those}
\* With more products than are looked at.
Many(plans) == {[p EXCEPT !.named = <<"tea", "cup", "cup">>] : p \in plans}

Blocking == {[do |-> "block", action |-> a, jid |-> j] : a \in {"block", "unblock"}, j \in {n1} \cup MCLids}
            \cup {[do |-> "block", action |-> "hide", jid |-> n1], [do |-> "block", action |-> "block", jid |-> g1]}
Learning == {[do |-> "devices", jids |-> <<n1, anyLid>>, use_cache |-> u] : u \in BOOLEAN}
            \cup {[do |-> "metadata", jid |-> g1], [do |-> "fetch_all"], [do |-> "modify"]}
Tokens == {[do |-> "tokens", jids |-> <<n1, n1>>], [do |-> "picture", jid |-> n1], [do |-> "metadata", jid |-> g1]}
Finding == {[do |-> "exists", numbers |-> <<n1, None, n2, anyLid, n1>>], [do |-> "exists", numbers |-> <<n3, n1, n2>>]}
Products == {[do |-> "product", name |-> "cup", images |-> << >>],
             [do |-> "product", name |-> "hat", hidden |-> TRUE, origin |-> None, images |-> <<"there">>]}
Shop == {[do |-> "product_update", id |-> 1, name |-> x, hidden |-> FALSE, origin |-> "here", images |-> i] :
           x \in {"hat", None}, i \in {<< >>, <<"new">>}}
        \cup {[do |-> "product_delete", ids |-> {1, 2}]}
Business == {[do |-> "catalog", jid |-> None, me |-> m, limit |-> 1, cursor |-> x] : m \in BOOLEAN, x \in {None, 1}}
        \cup {[do |-> "collections", jid |-> n1, me |-> FALSE], [do |-> "b_profile"], [do |-> "order"], [do |-> "uncover"]}
        \cup {[do |-> "b_update", address |-> x, description |-> None, websites |-> w] : x \in {None, "street"}, w \in {<< >>, <<"site">>}}
Of(do, type, mimetype) == [do |-> do, type |-> type, mimetype |-> mimetype]
Connecting == {Of("media", "image", None), [do |-> "refresh_conn", force |-> TRUE]}
Sending == Products \cup Connecting \cup
  {[raw |-> FALSE] ++ Of("upload", "image", None), [raw |-> TRUE] ++ Of("upload", "image", None), Of("media", "ptt", "audio/ogg"),
   Of("media", "ptt", None), Of("media", "text", None), [do |-> "cover"],
   [do |-> "product", name |-> "hat", images |-> <<"new", "there", "new">>],
   [do |-> "product", name |-> None, images |-> << >>], [do |-> "refresh_conn", force |-> FALSE]}
Retrying == {[do |-> "retry", id |-> i, key |-> k] : i \in {"m1", None}, k \in {"k1"}} \cup {[do |-> "retry", id |-> "m2", key |-> "k2"]}

Key(chat, participant, id, from_me) == [chat |-> chat, participant |-> participant, id |-> id, from_me |-> from_me]
Keys == <<Key(g1, n1, "m1", FALSE), Key(g1, n2, "m2", FALSE), Key(g1, n1, "m3", FALSE), Key(g1, None, "m4", TRUE),
          Key(n1, None, "m5", FALSE), Key(n1, None, None, FALSE), Key(None, None, "m6", FALSE)>>
Privacy == {[do |-> "update_privacy", name |-> x, value |-> v] : x \in {"last", "readreceipts"}, v \in {"all", "none"}}
Reading == {[do |-> "read_messages", keys |-> Keys], [do |-> "send_receipts", keys |-> Keys, type |-> None]}
Channels == {[do |-> d, id |-> 1] : d \in {"follow", "unfollow", "mute", "unmute", "subscribers", "admin_count", "delete",
                                          "n_metadata", "live_updates", "fetch_messages", "react"}}
            \cup {[do |-> d, id |-> 1, user |-> "u1"] : d \in {"owner", "demote"}}
            \cup {[do |-> d, id |-> 1, name |-> "other"] : d \in {"n_create", "n_update"}}

some == <<n1, n2>>
Subjects == {[do |-> "subject", jid |-> g1, subject |-> "s1"], [do |-> "description", jid |-> g1, description |-> "d1"],
             [do |-> "or_invite", jid |-> g1, action |-> "add", participants |-> some],
             [do |-> "participants", jid |-> g1, action |-> "remove", participants |-> some]}
GroupOps == Subjects \cup
  {[do |-> d, jid |-> g1] : d \in {"leave", "list_requests", "code", "revoke", "c_metadata", "c_leave", "c_linked",
                                     "c_list_requests", "c_code", "c_revoke"}}
  \cup {[do |-> d] : d \in {"c_fetch_all"}}
  \cup {[do |-> d, subject |-> "s2"] : d \in {"create", "c_create", "c_create_group"}}
  \cup {[do |-> d, jid |-> g1, participants |-> <<n1>>] : d \in {"invite"}}
  \cup {[do |-> d, jid |-> g1, action |-> a, participants |-> <<n1>>] : d \in {"requests", "c_requests"}, a \in {"approve", "drop"}}
  \cup {[do |-> d, code |-> 0] : d \in {"accept", "info", "c_accept", "c_info"}}
  \cup {[do |-> d, jid |-> g1, setting |-> x, value |-> 7] :
          d \in {"setting", "c_setting"}, x \in {"announcement", "unlocked"}}
  \cup {[do |-> "setting", jid |-> g1, setting |-> "ephemeral", value |-> 7]}
  \cup {[do |-> d, jid |-> g1, expiration |-> x] : d \in {"ephemeral", "c_ephemeral"}, x \in {0, 7}}
  \cup {[do |-> d, jid |-> g1, mode |-> x] : d \in {"add_mode", "c_add_mode"}, x \in {"all_member_add", "none"}}
  \cup {[do |-> d, jid |-> g1, mode |-> x] : d \in {"approval", "c_approval"}, x \in {"on", "none"}}
  \cup {[do |-> "c_subject", jid |-> g1, subject |-> "s3"], [do |-> "c_description", jid |-> g1, description |-> "d2"]}
  \cup {[do |-> d, jid |-> g1, group |-> new] : d \in {"c_link", "c_unlink"}}
  \cup {[do |-> "c_participants", jid |-> g1, action |-> a, participants |-> <<n1>>] : a \in {"promote", "drop"}}
  \cup {[do |-> "or_invite", jid |-> g1, action |-> "drop", participants |-> some],
         [do |-> "or_invite", jid |-> g1, action |-> "add", participants |-> << >>]}

MCPlans ==
  UNION {Together(Blocking, Learning, 0, 1, 1),
         Together(Blocking, {[do |-> "block", action |-> "block", jid |-> n1]}, 2, 0, 0),
         Together(Tokens, Tokens, 3, 0, 0), Together(Finding, {None}, 2, 0, 0),
         Together(Sending \cup Shop, Products, 1, 0, 0), Together(Business, {None}, 0, 0, 0), Many(Together(Products, Products, 1, 0, 0)), Together(Sending, Connecting, 1, 0, 0),
         Together(Retrying, Retrying, 2, 0, 1),
         Together(Privacy \cup Reading \cup {[do |-> "fetch_privacy"]}, Privacy, 0, 0, 0),
         Together(Channels, {ch \in Channels : ch.do \in {"n_update", "n_metadata", "delete"}}, 0, 0, 0),
         Together(GroupOps, Subjects, 0, 0, 0)}
=============================================================================
