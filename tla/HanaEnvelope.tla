---------------------------- MODULE HanaEnvelope ----------------------------
(***************************************************************************)
(* How a failed call is described to its caller and to the host: the       *)
(* retryable / kind verdict of classify_error (envelope.rs), the outcome   *)
(* label and the audit action (lib.rs).                                    *)
(*                                                                         *)
(* Both verdicts search the error MESSAGE for marker words.  A message is  *)
(* the set of the groups of markers it contains.                           *)
(***************************************************************************)

\* "reject": one of the non-retryable markers (syntax error, insufficient
\* privilege, read-only, ...).  "timeout": "timed out" or "timeout".
\* "transport": one of the other retryable markers (connection, pool, ...).
Word == {"reject", "timeout", "transport"}
Message == SUBSET Word

retryable(message) ==
    /\ "reject" \notin message
    /\ message \cap {"timeout", "transport"} # {}

kind(message) == IF retryable(message) THEN "transport_error" ELSE "hana_error"

-----------------------------------------------------------------------------
(* The fixed messages of the plugin, by the markers they contain.          *)

PoolTimedOut == {"timeout", "transport"} \* HANA pool connection failed: Timed out in bb8
CallTimedOut == {"timeout"}              \* HANA call timed out
BindRejected == {}                       \* binding params: array/object values ...
UriMissing   == {}                       \* resource surface requires a `uri` ...

-----------------------------------------------------------------------------
(* execute's outcome label, and the audit event the label calls for.       *)

Label == {"ok", "profile_not_found", "invalid_spec",
          "timeout", "transport_error", "hana_error"}

failure_label(message) ==
    IF "timeout" \in message THEN "timeout" ELSE kind(message)

AuditAction == {"none", "request_timeout", "request_failed", "query_rejected"}

\* Mutant: a caller's bad parameters are not audited.
audit_query_failures(label) ==
    CASE label = "timeout"         -> "request_timeout"
      [] label = "transport_error" -> "request_failed"
      [] label = "hana_error"      -> "query_rejected"
      [] OTHER                     -> "none"

\* Mutant: a call for an unknown backend is audited, too.
audit_every_failure(label) ==
    CASE label = "timeout"                    -> "request_timeout"
      [] label \in {"ok", "none"}             -> "none"
      [] label \notin {"timeout", "ok", "none"} -> "request_failed"

audit_action_for_outcome(label) ==
    CASE label = "timeout"                            -> "request_timeout"
      [] label \in {"transport_error", "invalid_spec"} -> "request_failed"
      [] label = "hana_error"                         -> "query_rejected"
      [] OTHER                                        -> "none"
=============================================================================
