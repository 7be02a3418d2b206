---------------------------- MODULE RedactorWalk ----------------------------
(***************************************************************************)
(* The walk of the PII redactor over a JSON tree (redact in                *)
(* packages/pii/redactor.py), and the value of Redactor that a tree is.    *)
(* Both are recursive over the tree, so this module is for checking only.  *)
(***************************************************************************)
EXTENDS Redactor, Sequences

DictNode(items) == [kind |-> "dict", items |-> items]
ListNode(items) == [kind |-> "list", items |-> items]

Union(results) == UNION {results[i] : i \in DOMAIN results}

\* _walk: keys stay as they are; the items of a dict go by their own keys, those of a list by its key.
RECURSIVE Walk(_, _, _, _)
Walk(node, key, sensitive, allowRaw) ==
    IF node.kind \notin {"dict", "list"} THEN WalkLeaf(node, key, sensitive, allowRaw)
    ELSE LET below == [i \in DOMAIN node.items |->
                           Walk(node.items[i], IF node.kind = "dict" THEN i ELSE key,
                                sensitive, allowRaw)]
         IN Result([node EXCEPT !.items = [i \in DOMAIN below |-> below[i].data]],
                   Union([i \in DOMAIN below |-> below[i].fields]),
                   Union([i \in DOMAIN below |-> below[i].matched]))

RedactTree(tree, sensitive, allowRaw) == Walk(tree, NoKey, sensitive, allowRaw)

\* The leaves of a tree, each with the key that is closest above it.
RECURSIVE ValueOf(_)
ValueOf(node) ==
    CASE node.kind = "dict" -> Dict([k \in DOMAIN node.items |-> ValueOf(node.items[k])])
      [] node.kind = "list" -> List([i \in DOMAIN node.items |-> ValueOf(node.items[i])])
      [] OTHER -> Leaf(node)

\* The value of a result.
ResultOf(result) == [result EXCEPT !.data = ValueOf(@)]
=============================================================================
