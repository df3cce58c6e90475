---------------------------- MODULE CryptLibrary ----------------------------
(***************************************************************************)
(* src/mta_crypt_lib/mta_crypt.c: MTA_crypt_init, MTA_encrypt and          *)
(* MTA_decrypt, called one at a time.  OpenSSL is external: each call of   *)
(* it may fail, an update without padding processes whole blocks of 8      *)
(* bytes.  Data and keys are their lengths.                                *)
(***************************************************************************)
EXTENDS Integers

CONSTANTS
  CcKeyLengths,    \* the lengths callers pass for keys
  CcDataLengths    \* ... and for data

ASSUME CcAssumption == CcKeyLengths \subseteq Nat /\ CcDataLengths \subseteq Nat

MaxKey == 64      \* EVP_MAX_KEY_LENGTH

CcFunctions == {"init", "encrypt", "decrypt"}

\* What a call is given: for the three pointers, whether they are not NULL.
CcArguments == [key : BOOLEAN, keyLength : CcKeyLengths, data : BOOLEAN,
                dataLength : CcDataLengths, out : BOOLEAN, outLength : BOOLEAN]

\* As the program has them in between two calls.
NoCall == [fn |-> "none", length |-> 0]

VARIABLES
  ccProvider,    \* whether provider is not NULL
  ccCipher,      \* whether cipher is not NULL
  ccCall,        \* the function that runs, and its data's length
  ccStage,       \* "none", what the function does next, or "fin"
  ccRet,         \* ret, and after a call what it returned
  ccContexts,    \* how many EVP_CIPHER_CTX there are
  ccOutLength,   \* the length the call reported, -1 if it reported none
  ccInitRet      \* history: what the latest MTA_crypt_init returned

ccVars == <<ccProvider, ccCipher, ccCall, ccStage, ccRet, ccContexts, ccOutLength, ccInitRet>>

CcInit ==
  /\ ccProvider = FALSE /\ ccCipher = FALSE
  /\ ccCall = NoCall /\ ccStage = "none" /\ ccRet = "OK"
  /\ ccContexts = 0 /\ ccOutLength = -1 /\ ccInitRet = "NOT_CALLED"

\* A failing load takes away the provider of an earlier initialisation, a
\* cipher that is not found leaves the new provider behind.
CcCryptInit ==
  /\ ccStage = "none"
  /\ \/ ccProvider' = FALSE /\ ccInitRet' = "ERROR" /\ UNCHANGED ccCipher
     \/ ccProvider' = TRUE /\ ccCipher' = FALSE /\ ccInitRet' = "ERROR"
     \/ ccProvider' = TRUE /\ ccCipher' = TRUE /\ ccInitRet' = "OK"
  /\ ccRet' = ccInitRet' /\ ccCall' = [fn |-> "init", length |-> 0]
  /\ ccOutLength' = -1
  /\ UNCHANGED <<ccStage, ccContexts>>

\* MTA_CRYPT_INPUT_DATA_VALIDATION, for data that is not NULL.
CcValidateData(a) ==
  IF a.dataLength = 0 THEN "DATA_ZERO_LENGTH"
  ELSE IF a.dataLength > MaxKey * 8 THEN "DATA_MAX_LENGTH_EXCEEDED"
  ELSE IF a.dataLength % 8 # 0 THEN "NOT_8_BYTE_MULTIPLICATION"
  ELSE "OK"

\* As CcValidate, looking at the provider only.
CcValidateProvider(fn, a) ==
  IF ~ccProvider THEN "INIT_NOT_CALLED"
  ELSE IF fn = "encrypt" THEN CcValidateData(a) ELSE "OK"

\* The validations, in their order.  Only MTA_encrypt validates its data.
CcValidate(fn, a) ==
  IF ~a.key THEN "NULL_PTR_RECEIVED"
  ELSE IF a.keyLength = 0 THEN "KEY_ZERO_LENGTH"
  ELSE IF a.keyLength > MaxKey THEN "KEY_MAX_LENGTH_EXCEEDED"
  ELSE IF ~(a.data /\ a.out /\ a.outLength) THEN "NULL_PTR_RECEIVED"
  ELSE IF ~(ccProvider /\ ccCipher) THEN "INIT_NOT_CALLED"
  ELSE IF fn = "encrypt" THEN CcValidateData(a)
  ELSE "OK"

CcEnter(fn, a) ==
  /\ ccStage = "none"
  /\ ccRet' = CcValidate(fn, a)
  /\ ccStage' = IF ccRet' = "OK" THEN "new" ELSE "none"
  /\ ccCall' = [fn |-> fn, length |-> a.dataLength]
  /\ ccOutLength' = -1
  /\ UNCHANGED <<ccProvider, ccCipher, ccContexts, ccInitRet>>

\* The calls of OpenSSL after EVP_CIPHER_CTX_new, and what follows each.
CcAfter == [init |-> "length", length |-> "key", key |-> "padding",
            padding |-> "update", update |-> "fin"]

CcFails(stage) ==
  /\ ccRet' = "ERROR" /\ ccStage' = stage
  /\ UNCHANGED <<ccProvider, ccCipher, ccCall, ccContexts, ccOutLength, ccInitRet>>

CcNew ==
  /\ ccStage = "new"
  /\ ccContexts' = ccContexts + 1 /\ ccStage' = "init"
  /\ UNCHANGED <<ccProvider, ccCipher, ccCall, ccRet, ccOutLength, ccInitRet>>

\* A block that is not whole stays in the context and goes with it.
CcEvp ==
  /\ ccStage \in DOMAIN CcAfter
  /\ ccStage' = CcAfter[ccStage]
  /\ ccOutLength' = IF ccStage = "update" THEN ccCall.length - (ccCall.length % 8)
                                          ELSE ccOutLength
  /\ UNCHANGED <<ccProvider, ccCipher, ccCall, ccRet, ccContexts, ccInitRet>>

\* As CcEvpFails, for a return in the place of the goto.
CcEvpReturns == ccStage \in DOMAIN CcAfter \cup {"new"} /\ CcFails("none")

CcEvpFails == ccStage \in DOMAIN CcAfter \cup {"new"} /\ CcFails("fin")

\* EVP_CIPHER_CTX_free also takes the NULL of a failed EVP_CIPHER_CTX_new.
CcFin ==
  /\ ccStage = "fin"
  /\ ccContexts' = IF ccContexts > 0 THEN ccContexts - 1 ELSE 0
  /\ ccStage' = "none"
  /\ UNCHANGED <<ccProvider, ccCipher, ccCall, ccRet, ccOutLength, ccInitRet>>

CcRun == CcNew \/ CcEvp \/ CcEvpFails \/ CcFin

CcNext ==
  \/ CcCryptInit
  \/ \E fn \in {"encrypt", "decrypt"}, a \in CcArguments : CcEnter(fn, a)
  \/ CcRun

CcSpec == CcInit /\ [][CcNext]_ccVars
-----------------------------------------------------------------------------
\* Whatever OpenSSL refuses and at which call: no context outlives the call
\* it was made for, and exactly the calls that return OK have set the length
\* of their result.
CcEndsClean ==
  ccStage = "none" /\ ccCall.fn \in {"encrypt", "decrypt"} =>
    /\ ccContexts = 0
    /\ ccOutLength # -1 <=> ccRet = "OK"

\* "This function *MUST* be called before any encryption or decryption
\* operations" (mta_crypt.h:26): nothing is encrypted or decrypted unless
\* the latest initialisation went well, whatever became of earlier ones.
CcInitPrecedes ==
  ccCall.fn \in {"encrypt", "decrypt"} /\ ccRet = "OK" => ccInitRet = "OK"

\* "Data length must be a multiplication of 8" (mta_crypt.h:5).
CcWholeBlocks ==
  ccStage = "none" /\ ccCall.fn \in {"encrypt", "decrypt"} /\ ccRet = "OK" =>
    ccCall.length % 8 = 0
=============================================================================
