---------------------------- MODULE BusinessCalls ----------------------------
(***************************************************************************)
(* The calls of a business account (socket.py): its profile, its catalog,    *)
(* collections and orders, and the products, with the search for one whose   *)
(* creation was not answered.                                               *)
(***************************************************************************)
EXTENDS Asking, Business

Catalogs == {"catalog", "collections"}
Profiles == {"b_profile", "b_update", "order", "uncover"}
Mutations == {"product", "product_update"}

-----------------------------------------------------------------------------
(* Products.  The name is not an identity: another product may have it.    *)

\* product_create_node and product_update_node, sent when all images have an address.
MutateProduct(c, fields) ==
  LET op == plan.does[c]
      node == product_node(IF op.do = "product" THEN None ELSE op.id, op)
  IN IF op.do = "product" THEN Ask(c, Query("product_add", node), "create", fields)
     ELSE Ask(c, Query("product_edit", node), "update", fields)

product_delete(c) ==
  /\ Begins(c, {"product_delete"})
  /\ Ask(c, Query("product_delete", plan.does[c].ids), "delete", NoChange)
  /\ UNCHANGED <<now, fixed, local, server, bounds>>

\* Whose catalog: the one asked for, or that of this account, which must have logged in.
catalog_node(limit, cursor) == [limit |-> limit, after |-> cursor]
get_catalog(c) ==
  LET op == plan.does[c]
  IN /\ Begins(c, Catalogs)
     /\ IF op.jid = None /\ ~op.me THEN Ends(c, "SocketNotConnectedError", NoChange)
        ELSE IF op.do = "collections" THEN Ask(c, Query("collections", None), "collections", NoChange)
        ELSE Ask(c, Query("catalog", catalog_node(op.limit, op.cursor)), "page", NoChange)
     /\ UNCHANGED <<now, fixed, local, server, bounds>>

\* What the server makes of it: a collection is a page it lists; only a catalog has a next one.
ServeCollections(c) ==
  /\ Waiting(c, "collections") /\ Answers(c, NoChange, NoChange)
  /\ UNCHANGED <<now, fixed, local, server, bounds>>

\* The server: the products there still are, by their number.
There == Picked([i \in DOMAIN products |-> i], {i \in DOMAIN products : ~products[i].gone})

ServeProducts(c) ==
  LET node == call[c].node.child
  IN /\ \/ /\ Waiting(c, "product_add")
           /\ products' = Append(products, Given(node, {"name", "hidden"}) ++ [name |-> None, hidden |-> None, by |-> c, gone |-> FALSE])
           /\ Answers(c, [product |-> Len(products) + 1], NoChange)
        \/ /\ Waiting(c, "product_edit")
           /\ products' = [products EXCEPT ![node.id] = Given(node, {"name", "hidden"}) ++ @]
           /\ \E product \in {node.id, None} : Answers(c, [product |-> product], NoChange)
        \/ /\ Waiting(c, "product_delete")
           /\ products' = [i \in DOMAIN products |-> [products[i] EXCEPT !.gone = @ \/ i \in node]]
           /\ Answers(c, [deleted |-> Cardinality({i \in node \cap DOMAIN products : ~products[i].gone})], NoChange)
     /\ UNCHANGED <<now, fixed, local, groups, lid_of, account, once, bounds>>

\* A page of the catalog begins after the last product of the one before.
ServeCatalog(c) ==
  LET node == call[c].node.child
      rest == Picked(There, {k \in DOMAIN There : node.after = None \/ There[k] > node.after})
      page == SubSeq(rest, 1, IF Len(rest) < node.limit THEN Len(rest) ELSE node.limit)
  IN /\ Waiting(c, "catalog")
     /\ \E catalog \in {None, [k \in DOMAIN page |-> [id |-> page[k], name |-> products[page[k]].name]]} :
          Answers(c, [catalog |-> catalog, next |-> IF Len(page) = Len(rest) THEN None ELSE page[Len(page)]], NoChange)
     /\ UNCHANGED <<now, fixed, local, server, bounds>>

\* A call that has returned a product, or a page.
ProductRead(c) ==
  /\ Granting(c) /\ call[c].step \in {"create", "update", "page"}
  /\ IF call[c].step = "page"
     THEN Ends(c, "ok", [got |-> <<parse_catalog(call[c].answer)>>])
     ELSE Ends(c, "ok", [got |-> <<parse_product_mutation(call[c].answer)>>])
  /\ UNCHANGED <<now, fixed, local, server, bounds>>

\* Mutant: the first of that name.
recovered_First(listed, name) ==
  LET matches == {i \in DOMAIN listed : listed[i].name = name}
  IN IF matches = {} THEN None ELSE listed[Min(matches)].id

\* _recover_created_product: the product of that name, if there is one and no other on the
\* page that is read.
recovered(listed, name) ==
  LET matches == {i \in DOMAIN listed : listed[i].name = name}
  IN IF Cardinality(matches) = 1 THEN listed[CHOOSE i \in matches : TRUE].id ELSE None

ProductRecovered(c) ==
  LET product == recovered(parse_catalog(call[c].answer).products, plan.does[c].name)
  IN /\ Granting(c) /\ call[c].step = "recover"
     /\ IF product = None THEN Ends(c, "TimeoutError", NoChange) ELSE Ends(c, "ok", [got |-> <<product>>])
     /\ UNCHANGED <<now, fixed, local, server, bounds>>

\* A creation that times out is looked for, if the product has a name.
ProductLate(c) ==
  IF plan.does[c].name = None THEN Ends(c, "TimeoutError", [cut |-> TRUE])
  ELSE Ask(c, Query("catalog", catalog_node(RecoverPage, None)), "recover", [cut |-> TRUE])

-----------------------------------------------------------------------------
(* The profile, the cover photo and orders                                 *)

profile_call(c) ==
  LET op == plan.does[c]
  IN /\ Begins(c, Profiles)
     /\ Ask(c, Query("w:biz", IF op.do = "b_update" THEN update_business_profile_node(op) ELSE None), "profile", NoChange)
     /\ UNCHANGED <<now, fixed, local, server, bounds>>

ServeProfile(c) ==
  LET op == plan.does[c]
      after == (IF op.do = "b_update" THEN call[c].node.child ELSE << >>) ++ account.business
  IN /\ Waiting(c, "w:biz")
     /\ account' = [account EXCEPT !.business = after]
     /\ \E profile \in {None, after} : Answers(c, [profile |-> profile], NoChange)
     /\ UNCHANGED <<now, fixed, local, groups, lid_of, products, once, bounds>>

BusinessEnds(c) ==
  /\ \/ /\ Granting(c) /\ call[c].step \in {"profile", "collections"}
        /\ Ends(c, "ok", [got |-> IF plan.does[c].do = "b_profile" THEN <<parse_business_profile(call[c].answer)>> ELSE << >>])
     \/ Granting(c) /\ call[c].step = "delete" /\ Ends(c, "ok", [got |-> <<parse_product_delete(call[c].answer)>>])
     \/ Refused(c) /\ plan.does[c].do \in Catalogs \cup Profiles \cup {"product_delete"} /\ Ends(c, "IQError", NoChange)
  /\ UNCHANGED <<now, fixed, local, server, bounds>>
=============================================================================
