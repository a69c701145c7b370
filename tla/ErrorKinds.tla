----------------------------- MODULE ErrorKinds -----------------------------
(***************************************************************************)
(* The error type of the crate (src/src/error.rs) and the errors of the    *)
(* guarded calls (src/src/circuit_breaker/error.rs).  An error is its      *)
(* kind: the source it carries is text.                                    *)
(***************************************************************************)
EXTENDS Integers

ErrorKind ==
    {"Database", "Authentication", "Configuration", "Tls", "Io", "InvalidInput",
     "CircuitBreakerOpen", "CircuitBreakerFailed", "Internal"}

\* Error::status_code
status_code ==
    [k \in ErrorKind |->
        CASE k \in {"Database", "CircuitBreakerOpen"} -> 503
          [] k = "CircuitBreakerFailed" -> 502
          [] k = "Authentication" -> 401
          [] k = "InvalidInput" -> 400
          [] OTHER -> 500]

\* Error::is_client_safe: may the message be shown to the client?
is_client_safe(k) ==
    k \in {"Authentication", "InvalidInput", "CircuitBreakerOpen",
           "CircuitBreakerFailed"}

\* Error::to_error_response and into_response: the code is always sent, the
\* message only when it is safe.
into_response(k) ==
    [status |-> status_code[k], error_code |-> k, redacted |-> ~is_client_safe(k)]

\* Error::is_transient: is another attempt worth while?
is_transient(k) == k \in {"Io", "Database", "CircuitBreakerFailed"}

\* The From implementations: which kind an error of another library becomes.
From ==
    [std_io |-> "Io", toml |-> "Configuration", url |-> "InvalidInput",
     env_var |-> "Configuration", header_value |-> "InvalidInput",
     sqlx |-> "Database", rustls |-> "Tls"]

\* The errors of a guarded call, and the kind each one becomes.
CircuitBreakerError == {"CircuitOpen", "CallFailed", "Timeout"}

from_circuit_breaker(e) ==
    IF e = "CircuitOpen" THEN "CircuitBreakerOpen" ELSE "CircuitBreakerFailed"

\* CircuitBreakerError::is_transient
guarded_is_transient(e) == e \in {"Timeout", "CallFailed"}

\* The two classifications agree along the From bridge, and a transient error
\* is never shown as the client's own mistake (4xx).
ASSUME ClassificationsAgree ==
    /\ \A e \in CircuitBreakerError :
          guarded_is_transient(e) <=> is_transient(from_circuit_breaker(e))
    /\ \A k \in ErrorKind : is_transient(k) => status_code[k] >= 500
=============================================================================
