----------------------------- MODULE MCDelivery -----------------------------
(* Calls to a user with two devices, to ourselves, and to a group.          *)
EXTENDS Delivery

CONSTANTS me, ml, a, l, g
MCMeLid == [Jid(ml, "lid") EXCEPT !.device = 1]
MCMeId == [Jid(me, "s.whatsapp.net") EXCEPT !.device = 1]
Text == [kind |-> "text", complete |-> TRUE]
Send(chat, content, direct, wait) == [chat |-> chat, content |-> content, direct |-> direct, wait |-> wait]
ToUser == Send(Jid(a, "s.whatsapp.net"), Text, FALSE, TRUE)
ToSelf == Send(Jid(me, "s.whatsapp.net"), [kind |-> "proto", field |-> "reaction"], FALSE, FALSE)
ToLid == Send(Jid(l, "lid"), Text, FALSE, TRUE)
ToGroup == Send(Jid(g, "g.us"), Text, FALSE, TRUE)
MCSends == {ToUser, ToSelf, ToGroup,
            Send(Jid(a, "s.whatsapp.net"), [Text EXCEPT !.complete = FALSE], TRUE, FALSE)}
Device(id, index) == [id |-> id, key_index |-> index, is_hosted |-> FALSE]
\* The account has its phone and this device; the user a phone, a second device, and one
\* that the key index does not vouch for.
MCListings == {[u \in {me, ml, a, l} |-> IF u \in {me, ml} THEN <<Device(0, None), Device(1, 1)>>
                                  ELSE <<Device(0, None), Device(2, 1), Device(3, None)>>]}
\* One call of a kind, with everything that may befall it; one by the LID; and two that race.
MCPlans == {[callers |-> 1, sends |-> MCSends, keys |-> {R!KeysNeeded, R!KeysNeeded \ {"type"}},
             stores |-> {"memory", "database"}, nodes |-> 3, expired |-> 1, crashes |-> 1],
            [callers |-> 1, sends |-> {ToLid}, keys |-> {R!KeysNeeded},
             stores |-> {"memory"}, nodes |-> 2, expired |-> 1, crashes |-> 1],
            [callers |-> 2, sends |-> {ToUser}, keys |-> {None, R!KeysNeeded},
             stores |-> {"database"}, nodes |-> 2, expired |-> 0, crashes |-> 0]}
MCSymmetry == Permutations(Callers)
MCAuthors == {Jid(g, "g.us")}
=============================================================================
