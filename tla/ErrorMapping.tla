---------------------------- MODULE ErrorMapping ----------------------------
(***************************************************************************)
(* errors.go and errorresponse.go: how an error leaves the wallet          *)
(* boundary.  An error is its sentinel's name, "WalletError" for an error  *)
(* the wallet itself reported, or a name the table does not know.          *)
(* The error code is kept, the wording is not.                             *)
(***************************************************************************)

\* The 404 rows of errorTable.
NotFoundErrors == {"ErrSessionNotFound", "ErrSessionExpired"}

\* The 400 rows whose code is invalid_request.
InvalidRequestErrors ==
    { "ErrSessionConsumed", "ErrWalletMetadataInvalid", "ErrBodyTooLarge",
      "ErrMalformedResponse", "ErrDecrypt", "ErrStateMismatch",
      "ErrAPVMismatch", "ErrUnknownCredentialID", "ErrResponseCodeMismatch",
      "ErrResponseCodeConsumed", "ErrNoResponseCode",
      "ErrTransactionDataMismatch", "ErrTransactionDataMissing",
      "ErrTransactionDataUnexpected", "ErrFlowMismatch" }

\* The rows for errors that are never caused by the wallet.
OurErrors ==
    { "ErrNoRegistration", "ErrConfig", "ErrSpec", "ErrSessionInvalid",
      "ErrSessionNotConsumed", "ErrTranscriptParams",
      "ErrTransactionDataDisabled", "ErrTransactionDataInvalid",
      "ErrSANMismatch", "ErrUnsupportedClientIDPrefix" }

\* Errors of libraries that reach the caller without a sentinel.
LibraryErrors == {"SignJWS", "ErrRand"}

Errors ==
    NotFoundErrors \cup InvalidRequestErrors \cup OurErrors \cup LibraryErrors
        \cup {"ErrRequestURIConsumed", "ErrOriginNotExpected", "WalletError"}

\* The codes a wallet may report and ErrorResponse may repeat to it.
RegisteredCodes ==
    { "access_denied", "invalid_request", "invalid_client",
      "vp_formats_not_supported", "invalid_request_uri",
      "invalid_request_object" }

\* What a wallet can write into the error parameter: a registered code, our
\* own internal one, or any other text.
WalletCodes == RegisteredCodes \cup {"server_error", "other"}

\* normalizeWalletCode
normalizeWalletCode(code) ==
    IF code \in RegisteredCodes THEN code ELSE "invalid_request"

\* Engine.ErrorResponse: the first matching row, else 500 server_error.
\* walletCode is the Code of a WalletError.
ErrorResponse(err, walletCode) ==
    CASE err = "WalletError"
           -> [status |-> 400, code |-> normalizeWalletCode(walletCode)]
      [] err \in NotFoundErrors -> [status |-> 404, code |-> "invalid_request"]
      [] err \in InvalidRequestErrors
           -> [status |-> 400, code |-> "invalid_request"]
      [] err = "ErrRequestURIConsumed"
           -> [status |-> 400, code |-> "invalid_request_uri"]
      [] err = "ErrOriginNotExpected"
           -> [status |-> 400, code |-> "invalid_client"]
      [] OTHER -> [status |-> 500, code |-> "server_error"]
=============================================================================
