------------------------------ MODULE Business ------------------------------
(***************************************************************************)
(* A business account (business.py): what is sent of a product and of a      *)
(* profile, where only what is given goes out, and what is read of an answer.*)
(***************************************************************************)
EXTENDS Jids

\* What a record gives of some fields.
Given(record, fields) == [f \in {g \in fields \cap DOMAIN record : record[g] # None} |-> record[f]]

\* A product that is new has no id yet.  Images without an address cannot be sent: they are
\* uploaded before.  An origin that is given as none is an exemption.
product_node(id, product) ==
  [id |-> id, images |-> product.images,
   origin |-> CASE "origin" \notin DOMAIN product -> "not said"
                [] "origin" \in DOMAIN product /\ product.origin = None -> "exempt"
                [] OTHER -> product.origin]
  ++ Given(product, {"name", "hidden"})

\* The catalog of an answer, and where the next page begins.
parse_catalog(answer) ==
  IF answer.catalog = None THEN [products |-> << >>, next_cursor |-> None]
  ELSE [products |-> answer.catalog, next_cursor |-> answer.next]

parse_product_mutation(answer) == answer.product

parse_product_delete(answer) == IF answer.deleted = None THEN 0 ELSE answer.deleted

\* A field that is not given, and websites that are none, are not touched.
update_business_profile_node(updates) ==
  Given(updates, {"address", "description"}) ++ (IF updates.websites = << >> THEN << >> ELSE [websites |-> updates.websites])

parse_business_profile(answer) ==
  IF answer.profile = None THEN None
  ELSE [answer.profile EXCEPT !.description = IF @ = None THEN "" ELSE @]
=============================================================================
