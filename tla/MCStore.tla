------------------------------ MODULE MCStore ------------------------------
(***************************************************************************)
(* Constants for Store: one dataspace besides the default one, two uuids,  *)
(* and every operation with one or two items in every form.                *)
(***************************************************************************)
EXTENDS Store

CONSTANTS d, home, x, y, v, w

SomeSpaces == {home, d}
SomeIds == {x, y}
SomeVersions == {v, w}
SomePositions == <<"0", "1">>

Args(op, form, keys, items) ==
  [op |-> op, form |-> form, keys |-> keys, items |-> items,
   where |-> None, acl |-> "list", uuid |-> x]

\* Every form of arguments made of some items
InForms(op, some) ==
  {Args(op, form, <<>>, <<i>>) : form \in {"str", "uri"}, i \in some}
    \cup {Args(op, "list", <<>>, <<>>)}
    \cup {Args(op, "list", <<>>, <<i, j>>) : i, j \in some}
    \cup {Args(op, "dict", <<"b", "0">>, <<i, j>>) : i, j \in some}

SomeUris == {Uri(home, x), Uri(d, x), Uri(d, y)}
SpaceNames == {[space |-> d, id |-> NoId, plain |-> p] : p \in BOOLEAN}

\* A plain name is never an ETPUri.
Possible(c) ==
  c.form = "uri" => ~c.items[1].plain

ObjectCalls ==
  UNION {InForms(op, SomeUris) : op \in Gets \cup {"delete_data_object"}}
SpaceCalls ==
  {c \in UNION {InForms(op, SpaceNames) : op \in SpaceWrites} : Possible(c)}
AclCalls ==
  {[c EXCEPT !.acl = a] :
     c \in {b \in SpaceCalls : b.op = "put_dataspaces_with_acl"},
     a \in {"json", "text"}}

An(id, content) == [id |-> id, content |-> content]
Good == {An(x, v), An(y, v)}
File(kind, holds) == [kind |-> kind, holds |-> holds]
SomeFiles ==
  {File("object", <<An(x, v)>>), File("object", <<An(x, Unreadable)>>),
   File("epc", <<An(x, v), An(y, v)>>), File("missing", <<>>)}
PutItems(op) ==
  IF op = "put_data_object_file"
    THEN {<<f>> : f \in SomeFiles}
           \cup {<<File("missing", <<>>), File("object", <<An(y, v)>>)>>}
    ELSE {<<>>} \cup {<<o>> : o \in Good} \cup {<<An(x, v), An(y, v)>>, <<An(x, v), An(x, w)>>}
           \cup IF op = "put_data_object_str"
                  THEN {<<An(x, v), An(y, Unreadable)>>} ELSE {}
PutCalls ==
  {[Args(op, "list", <<>>, items) EXCEPT !.where = s] :
     op \in Puts, s \in {None} \cup SpaceNames,
     items \in UNION {PutItems(p) : p \in Puts}}
RightPuts == {c \in PutCalls : c.items \in PutItems(c.op)}
DictPuts == {[c EXCEPT !.form = "dict", !.keys = SubSeq(<<"b", "0">>, 1, Len(c.items))] :
               c \in {b \in RightPuts : b.op # "put_data_object_file"}}

ListCalls ==
  {Args(op, "str", <<>>, <<n>>) : op \in Lists, n \in {None} \cup SpaceNames}
CoreCalls == {Args(op, "list", <<>>, <<>>) : op \in {"ping", "authorize"}}

SomeCalls ==
  ObjectCalls \cup SpaceCalls \cup AclCalls \cup RightPuts \cup DictPuts
    \cup ListCalls \cup CoreCalls

=============================================================================
