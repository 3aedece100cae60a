-------------------------------- MODULE Errors --------------------------------
(***************************************************************************)
(* The errors a layer may return, and what becomes of them: the             *)
(* application's AppError, echo's HTTPError, and the errors of GORM, of the *)
(* context and of everything else, which processError tells apart.          *)
(*                                                                         *)
(* Of an error's text only one thing matters: whether it holds one of the   *)
(* words by which isGORMError knows an error of the database.  (One of them *)
(* is "connection", whatever it is a connection to.)                        *)
(***************************************************************************)
EXTENDS Naturals

(* The types of AppError, with the status each one's constructor gives it.   *)
HTTPStatus ==
  [validation |-> 400, unauthorized |-> 401, forbidden |-> 403, not_found |-> 404,
   timeout |-> 408, conflict |-> 409, internal |-> 500, database |-> 500,
   cache |-> 500, external |-> 502]

NewAppError(type, status) == [kind |-> "app", type |-> type, status |-> status]
WrapError(type) == NewAppError(type, HTTPStatus[type])

HTTPError(status) == [kind |-> "echo", type |-> "none", status |-> status]

(* gorm.ErrRecordNotFound, another error of GORM's by identity, an error     *)
(* with such a word in its text, the context's two, any other.               *)
PlainTypes == {"record_not_found", "gorm", "words", "canceled", "deadline", "other"}

Plain(type) == [kind |-> "plain", type |-> type, status |-> 0]

Error == [kind : {"app", "echo", "plain"}, status : 0 .. 599,
          type : DOMAIN HTTPStatus \cup PlainTypes \cup {"none"}]

NoError == [kind |-> "none"]

(* echo's errors keep their status, whatever it is. *)
FromHTTPError(status) ==
  CASE status = 400 -> WrapError("validation")
    [] status = 401 -> WrapError("unauthorized")
    [] status = 403 -> WrapError("forbidden")
    [] status = 404 -> WrapError("not_found")
    [] OTHER        -> NewAppError("internal", status)

isGORMError(type) == type = "words"

handleGORMError(type) ==
  CASE type = "record_not_found"            -> "not_found"
    [] type = "gorm" \/ isGORMError(type)   -> "database"
    [] OTHER                                -> "none"

handleContextError(type) == IF type \in {"canceled", "deadline"} THEN "timeout" ELSE "none"

FromPlain(type) ==
  CASE handleGORMError(type) # "none"    -> WrapError(handleGORMError(type))
    [] handleContextError(type) # "none" -> WrapError(handleContextError(type))
    [] OTHER                             -> WrapError("internal")

(* Mutant: the case of echo's errors is missing. *)
ProcessOwnAndPlain(e) == IF e.kind = "app" THEN e ELSE FromPlain(e.type)

processError(e) ==
  CASE e.kind = "app"   -> e
    [] e.kind = "echo"  -> FromHTTPError(e.status)
    [] OTHER            -> FromPlain(e.type)

(* The status an error is answered with. *)
ErrorStatus(e) == processError(e).status
============================================================================
