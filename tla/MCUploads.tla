------------------------------ MODULE MCUploads ------------------------------
(***************************************************************************)
(* Two uploads of one file under two spellings of its name. The payloads   *)
(* of the run are a plain one and the two that are signed alike; those of  *)
(* the two claims are plain and JSON.                                      *)
(***************************************************************************)
EXTENDS Uploads

MCPathname == <<"a", "/a">>
MCPayloads == {Value("alice", TRUE), Value("", TRUE), Null}
MCClientPayload == <<Null, Value("alice", TRUE)>>
JsonPayloads == {Value("alice", TRUE), Value("42", TRUE)}
JsonClientPayload == <<Value("42", TRUE), Value("alice", TRUE)>>
==============================================================================
