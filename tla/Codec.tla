-------------------------------- MODULE Codec --------------------------------
(***************************************************************************)
(* Message of proto.ts: the messages peers exchange, and what serialize and *)
(* deserialize keep of them.  A field that may be undefined is a set of at  *)
(* most one value; bytes are abstracted to the fields they encode.          *)
(***************************************************************************)
EXTENDS Integers

Message(Queries, Ids, Infos, Chunks, Errors) ==
    [type : {"FIND_FILE", "GET_FILE", "GET_FILE_CONTENT"},
     query : SUBSET Queries, fileId : SUBSET Ids, offset : SUBSET Nat,
     files : SUBSET Infos, content : SUBSET Chunks, error : SUBSET Errors]

NewMessage(type) ==
    [type |-> type, query |-> {}, fileId |-> {}, offset |-> {},
     files |-> {}, content |-> {}, error |-> {}]

FindFiles(query) == [NewMessage("FIND_FILE") EXCEPT !.query = {query}]
GetFile(id) == [NewMessage("GET_FILE") EXCEPT !.fileId = {id}]
GetFileContent(id, offset) ==
    [NewMessage("GET_FILE_CONTENT") EXCEPT !.fileId = {id}, !.offset = {offset}]

\* What Rpc.handleMessage answers when a handler throws.
ErrorMessage(type, what) == [NewMessage(type) EXCEPT !.error = {what}]

\* Message.serialize leaves out the fields that are falsy, but keeps an offset
\* of 0.  A Buffer is never falsy.
Serialize(m) ==
    [m EXCEPT !.query = @ \ {""}, !.fileId = @ \ {0}, !.error = @ \ {""}]

\* protocol-buffers decodes a number that is not there as 0.
Decode(wire) ==
    [wire EXCEPT !.fileId = IF @ = {} THEN {0} ELSE @,
                 !.offset = IF @ = {} THEN {0} ELSE @]

\* Mutant: an offset of 0 is taken for a missing one, as fileId is.
DeserializeTruthy(wire) ==
    [Decode(wire) EXCEPT !.fileId = @ \ {0}, !.offset = @ \ {0}]

\* Message.deserialize: the same on the way back, so that a message always has
\* an offset, and no fileId of 0.
Deserialize(wire) == [Decode(wire) EXCEPT !.fileId = @ \ {0}]
==============================================================================
