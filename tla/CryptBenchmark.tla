--------------------------- MODULE CryptBenchmark ---------------------------
(***************************************************************************)
(* src/mta_crypt_lib/test_encrypt.c, a caller of CryptLibrary: in each     *)
(* round it encrypts a password with a key, guesses keys, decrypts with    *)
(* them, and counts the guesses that give the password.  Random data is    *)
(* external: a guess may be right.                                         *)
(***************************************************************************)
EXTENDS CryptLibrary

CONSTANTS
  TcRounds,        \* NUM_OF_ROUNDS
  TcIterations,    \* NUM_OF_ITERATIONS
  TcPassLength,    \* PASS_LEN
  TcKeyLength      \* KEY_LEN

ASSUME TcAssumption ==
  /\ TcRounds \in Nat /\ TcIterations \in Nat
  /\ TcKeyLength \in 1 .. MaxKey
  /\ TcPassLength \in 1 .. 8 * MaxKey /\ TcPassLength % 8 = 0

VARIABLES
  tcPc,        \* what main does next, or "other": this is another program,
               \* that calls the library as it likes
  tcRound, tcIter,
  tcEncLength, \* enc_pass_len
  tcHits,      \* iter_dec_counter
  tcTotal,     \* total_dec_counter
  tcRight      \* history: how many guesses were right

tcVars == <<tcPc, tcRound, tcIter, tcEncLength, tcHits, tcTotal, tcRight>>

TcInit ==
  /\ CcInit
  /\ tcPc \in {"init", "other"}
  /\ tcRound = 0 /\ tcIter = 0 /\ tcEncLength = 0
  /\ tcHits = 0 /\ tcTotal = 0 /\ tcRight = 0

\* The argument list of main's calls.
TcArguments(length) == [key |-> TRUE, keyLength |-> TcKeyLength, data |-> TRUE,
                        dataLength |-> length, out |-> TRUE, outLength |-> TRUE]

TcCallInit == tcPc = "init" /\ CcCryptInit /\ tcPc' = "inInit"

TcCallEncrypt ==
  /\ tcPc = "round" /\ tcRound < TcRounds
  /\ CcEnter("encrypt", TcArguments(TcPassLength)) /\ tcPc' = "inEncrypt"

TcCallDecrypt ==
  /\ tcPc = "guess" /\ tcIter < TcIterations
  /\ CcEnter("decrypt", TcArguments(tcEncLength)) /\ tcPc' = "inDecrypt"

TcCall ==
  /\ TcCallInit \/ TcCallEncrypt \/ TcCallDecrypt
  /\ UNCHANGED <<tcRound, tcIter, tcEncLength, tcHits, tcTotal, tcRight>>

TcReturned(pc) == tcPc = pc /\ ccStage = "none" /\ UNCHANGED ccVars

\* assert(res == MTA_CRYPT_RET_OK)
TcAbort ==
  /\ tcPc \in {"inInit", "inEncrypt", "inDecrypt"} /\ TcReturned(tcPc) /\ ccRet # "OK"
  /\ tcPc' = "aborted"
  /\ UNCHANGED <<tcRound, tcIter, tcEncLength, tcHits, tcTotal, tcRight>>

TcInitialised ==
  /\ TcReturned("inInit") /\ ccRet = "OK"
  /\ tcPc' = "round"
  /\ UNCHANGED <<tcRound, tcIter, tcEncLength, tcHits, tcTotal, tcRight>>

TcEncrypted ==
  /\ TcReturned("inEncrypt") /\ ccRet = "OK"
  /\ tcPc' = "guess" /\ tcIter' = 0 /\ tcEncLength' = ccOutLength
  /\ UNCHANGED <<tcRound, tcHits, tcTotal, tcRight>>

\* The right key gives the password, another one may.
TcCompare ==
  /\ TcReturned("inDecrypt") /\ ccRet = "OK"
  /\ tcPc' = "guess" /\ tcIter' = tcIter + 1
  /\ \E right, same \in BOOLEAN :
       /\ right => same
       /\ tcRight' = IF right THEN tcRight + 1 ELSE tcRight
       /\ tcHits' = IF same THEN tcHits + 1 ELSE tcHits
  /\ UNCHANGED <<tcRound, tcEncLength, tcTotal>>

\* As TcRoundEnds, counting in the total what is in it already.
TcRoundEndsTwice ==
  /\ tcPc = "guess" /\ tcIter = TcIterations
  /\ tcPc' = "round" /\ tcRound' = tcRound + 1
  /\ tcTotal' = tcTotal + tcHits
  /\ UNCHANGED <<tcIter, tcEncLength, tcHits, tcRight, ccVars>>

TcRoundEnds ==
  /\ tcPc = "guess" /\ tcIter = TcIterations
  /\ tcPc' = "round" /\ tcRound' = tcRound + 1
  /\ tcTotal' = tcTotal + tcHits /\ tcHits' = 0
  /\ UNCHANGED <<tcIter, tcEncLength, tcRight, ccVars>>

TcEnds ==
  /\ tcPc = "round" /\ tcRound = TcRounds
  /\ tcPc' = "done"
  /\ UNCHANGED <<tcRound, tcIter, tcEncLength, tcHits, tcTotal, tcRight, ccVars>>

TcMain ==
  \/ TcCall \/ TcAbort \/ TcInitialised \/ TcEncrypted \/ TcCompare
  \/ TcRoundEnds \/ TcEnds

TcNext ==
  \/ TcMain
  \/ tcPc \in {"inInit", "inEncrypt", "inDecrypt"} /\ CcRun /\ UNCHANGED tcVars
  \/ tcPc = "other" /\ CcNext /\ UNCHANGED tcVars

TcSpec == TcInit /\ [][TcNext]_<<ccVars, tcVars>>
-----------------------------------------------------------------------------
\* The assertions fail only if OpenSSL does: the lengths that main passes, the
\* one it got from MTA_encrypt included, are never refused.  And the number
\* printed at the end lies between the right guesses and all guesses.
TcBenchmarkOK ==
  /\ tcPc = "aborted" => ccRet = "ERROR"
  /\ tcRight <= tcTotal + tcHits
  /\ tcTotal + tcHits <= TcIterations * tcRound + tcIter
=============================================================================
