--------------------------------- MODULE Api ---------------------------------
(***************************************************************************)
(* What a handler answers: the error codes of the domain package, the HTTP *)
(* status each has, and the envelope of a response.                        *)
(***************************************************************************)

\* The codes by HTTP status; a code that is in none of the sets answers 500.
BadRequest == {"INVALID_CREDENTIALS", "INVALID_SIGNATURE", "NONCE_EXPIRED",
  "NONCE_USED", "UNSUPPORTED_CHAIN", "VALIDATION", "INVALID_FILTER",
  "INVALID_CONF", "WALLET_INVALID_ADDRESS", "CONFIG_INVALID"}
Unauthorized == {"TOKEN_EXPIRED", "TOKEN_INVALID", "REFRESH_REVOKED"}
Forbidden == {"FORBIDDEN", "DISABLED", "GROUP_FORBIDDEN"}
NotFoundCodes == {"NOT_FOUND", "WALLET_NOT_FOUND", "GROUP_NOT_FOUND",
  "ORDER_NOT_FOUND", "STRATEGY_NOT_FOUND", "CONFIG_NOT_FOUND"}
ConflictCodes == {"CONFLICT", "WALLET_LINKED", "GROUP_DUPLICATE", "TELEGRAM_CAP",
  "CONFIG_DUPLICATE", "VENUE_HAS_STRATEGY"}
Unprocessable == {"KILL_SWITCH", "GLOBAL_LIMIT", "RISK_VETOED", "STRATEGY_DISABLED",
  "RESUME_BLOCKED", "MANUAL_REQUIRED"}
Upstream == {"CONNECTION_FAILED", "EXCHANGE_UNREACHABLE"}

\* AppError: the code, and the status errorStatusMap gives it.
StatusOf(code) ==
  CASE code \in BadRequest    -> 400
    [] code \in Unauthorized  -> 401
    [] code \in Forbidden     -> 403
    [] code \in NotFoundCodes -> 404
    [] code \in ConflictCodes -> 409
    [] code \in Unprocessable -> 422
    [] code \in {"RATE_LIMITED"} -> 429
    [] code \in Upstream      -> 502
    [] OTHER                  -> 500

RespondError(code) == [status |-> StatusOf(code), code |-> code]
RespondValidationError == [status |-> 400, code |-> "VALIDATION"]
RespondSuccess == [status |-> 200, code |-> "OK"]
RespondCreated == [status |-> 201, code |-> "OK"]
RespondNoContent == [status |-> 204, code |-> "OK"]
NoResponse == [status |-> 0, code |-> "NONE"]

\* What the service layers return: nothing, or an AppError with a code.
OK == "OK"
Respond(code, success) == IF code = OK THEN success ELSE RespondError(code)
=============================================================================
