------------------------- MODULE CryptBenchmark_proofs ------------------------
(***************************************************************************)
(* For keys and data of any lengths, any number of rounds and guesses, and *)
(* whatever OpenSSL refuses: a call of the library ends clean, none gets   *)
(* past a failed initialisation, and the benchmark, which calls it with    *)
(* lengths of its own making, is refused none of them.                     *)
(***************************************************************************)
EXTENDS CryptBenchmark, TLAPS

CcWorks == {"encrypt", "decrypt"}

CcTypeOK ==
  /\ ccProvider \in BOOLEAN /\ ccCipher \in BOOLEAN
  /\ ccCall \in [fn : CcFunctions \cup {"none"}, length : Nat]
  /\ ccStage \in DOMAIN CcAfter \cup {"none", "new", "fin"}
  /\ ccContexts \in {0, 1} /\ ccOutLength \in Nat \cup {-1}

\* The two pointers tell how the latest initialisation went.
Initialised == ccProvider /\ ccCipher <=> ccInitRet = "OK"

CalledInitialised == ccCall.fn \in CcWorks /\ ccRet = "OK" => ccProvider /\ ccCipher

\* A context is there from EVP_CIPHER_CTX_new to fin.
Context ==
  /\ ccStage \in {"none", "new"} => ccContexts = 0
  /\ ccStage \in DOMAIN CcAfter => ccContexts = 1

\* Up to the update all went well and no length is reported yet.
Progress ==
  /\ ccStage # "none" => ccCall.fn \in CcWorks
  /\ ccStage \in DOMAIN CcAfter \cup {"new"} => ccRet = "OK" /\ ccOutLength = -1
  /\ ccStage \in {"none", "fin"} /\ ccCall.fn \in CcWorks =>
       (ccOutLength # -1 <=> ccRet = "OK")

IInv == CcTypeOK /\ Initialised /\ CalledInitialised /\ Context /\ Progress

\* The calls of OpenSSL that have a context, by name.
LEMMA Stages == DOMAIN CcAfter = {"init", "length", "key", "padding", "update"}
  BY DEF CcAfter

\* What an update processes is not negative.
LEMMA WholeBlocks == \A n \in Nat : n - (n % 8) \in Nat
  BY SMT

\* The invariant holds initially.
LEMMA InitIInv == CcInit => IInv
<1> SUFFICES ASSUME CcInit PROVE IInv
  OBVIOUS
<1>1. ccProvider = FALSE /\ ccCipher = FALSE /\ ccInitRet # "OK"
  BY DEF CcInit
<1>2. ccCall = [fn |-> "none", length |-> 0] /\ ccStage = "none"
      /\ ccContexts = 0 /\ ccOutLength = -1
  BY DEF CcInit, NoCall
<1>3. CcTypeOK
  BY <1>1, <1>2, Stages DEF CcTypeOK, CcFunctions
<1>4. Initialised
  BY <1>1 DEF Initialised
<1>5. CalledInitialised /\ Context /\ Progress
  BY <1>2, Stages DEF CalledInitialised, Context, Progress, CcWorks
<1> QED BY <1>3, <1>4, <1>5 DEF IInv

\* A call whose arguments are in order finds the library initialised.
LEMMA ValidateOK ==
  ASSUME NEW fn, NEW a, CcValidate(fn, a) = "OK" PROVE ccProvider /\ ccCipher
  BY DEF CcValidate

\* A call is refused, or starts with the library initialised and no context.
LEMMA EnterIInv ==
  ASSUME IInv, NEW fn \in CcWorks, NEW a, a.dataLength \in Nat, CcEnter(fn, a) PROVE IInv'
<1> DEFINE ret == CcValidate(fn, a)
<1>1. /\ ccStage = "none" /\ ccRet' = ret
      /\ ccStage' = IF ret = "OK" THEN "new" ELSE "none"
      /\ ccCall' = [fn |-> fn, length |-> a.dataLength] /\ ccOutLength' = -1
      /\ UNCHANGED <<ccProvider, ccCipher, ccContexts, ccInitRet>>
  BY DEF CcEnter
<1>2. ret = "OK" => ccProvider /\ ccCipher
  BY ValidateOK
<1> HIDE DEF ret
<1>4. CcTypeOK'
  BY <1>1, Stages DEF IInv, CcTypeOK, CcWorks, CcFunctions
<1>5. Initialised'
  BY <1>1 DEF IInv, Initialised
<1>6. CalledInitialised'
  BY <1>1, <1>2 DEF CalledInitialised
<1>7. Context' /\ Progress'
  BY <1>1, Stages DEF IInv, Context, Progress
<1> QED BY <1>4, <1>5, <1>6, <1>7 DEF IInv

\* Every step of the library keeps the invariant.
LEMMA NextIInv == IInv /\ [CcNext]_ccVars => IInv'
<1> SUFFICES ASSUME IInv, [CcNext]_ccVars PROVE IInv'
  OBVIOUS
<1> USE Stages
<1>1. CASE CcCryptInit
  BY <1>1 DEF CcCryptInit, IInv, CcTypeOK, Initialised, CalledInitialised, Context,
              Progress, CcWorks, CcFunctions
<1>2. ASSUME NEW fn \in CcWorks, NEW a \in CcArguments, CcEnter(fn, a) PROVE IInv'
  BY <1>2, EnterIInv, CcAssumption DEF CcArguments
<1>3. CASE CcNew
  BY <1>3 DEF CcNew, IInv, CcTypeOK, Initialised, CalledInitialised, Context, Progress
<1>4. CASE CcEvp
  <2>1. ccStage \in DOMAIN CcAfter /\ ccStage' = CcAfter[ccStage]
        /\ UNCHANGED <<ccProvider, ccCipher, ccCall, ccRet, ccContexts, ccInitRet>>
    BY <1>4 DEF CcEvp
  <2>2. CASE ccStage = "update"
    <3>1. ccStage' = "fin" /\ ccOutLength' \in Nat
      BY <1>4, <2>1, <2>2, WholeBlocks DEF CcEvp, CcAfter, IInv, CcTypeOK
    <3> QED BY <2>1, <2>2, <3>1
            DEF IInv, CcTypeOK, Initialised, CalledInitialised, Context, Progress
  <2>3. CASE ccStage # "update"
    <3>1. ccStage' \in DOMAIN CcAfter /\ UNCHANGED ccOutLength
      BY <1>4, <2>1, <2>3 DEF CcEvp, CcAfter
    <3> QED BY <2>1, <3>1
            DEF IInv, CcTypeOK, Initialised, CalledInitialised, Context, Progress
  <2> QED BY <2>2, <2>3
<1>5. CASE CcEvpFails
  BY <1>5 DEF CcEvpFails, CcFails, IInv, CcTypeOK, Initialised, CalledInitialised,
              Context, Progress
<1>6. CASE CcFin
  BY <1>6 DEF CcFin, IInv, CcTypeOK, Initialised, CalledInitialised, Context, Progress
<1>7. CASE UNCHANGED ccVars
  BY <1>7 DEF ccVars, IInv, CcTypeOK, Initialised, CalledInitialised, Context, Progress
<1> QED BY <1>1, <1>2, <1>3, <1>4, <1>5, <1>6, <1>7 DEF CcNext, CcRun, CcWorks

\* The inductive invariant, from which the theorems below are read off.
LEMMA Invariance == CcSpec => []IInv
  BY InitIInv, NextIInv, PTL DEF CcSpec

\* MTA_encrypt and MTA_decrypt free their context on every path, and report a
\* length exactly when they return OK.
THEOREM EndsClean == CcSpec => []CcEndsClean
<1>1. IInv => CcEndsClean
  BY DEF IInv, Context, Progress, CcWorks, CcEndsClean
<1> QED BY <1>1, Invariance, PTL

\* Nothing is encrypted or decrypted after a failed MTA_crypt_init, also when
\* an earlier one went well.
THEOREM InitPrecedes == CcSpec => []CcInitPrecedes
<1>1. IInv => CcInitPrecedes
  BY DEF IInv, Initialised, CalledInitialised, CcWorks, CcInitPrecedes
<1> QED BY <1>1, Invariance, PTL
-----------------------------------------------------------------------------
TcIn == {"inInit", "inEncrypt", "inDecrypt"}

TcTypeOK ==
  /\ tcPc \in TcIn \cup {"init", "round", "guess", "aborted", "done", "other"}
  /\ tcRound \in Nat /\ tcIter \in 0 .. TcIterations
  /\ tcHits \in Nat /\ tcTotal \in Nat /\ tcRight \in Nat
  /\ tcEncLength \in Nat

\* main goes on only with a library that is initialised, in between two calls,
\* and its calls pass the validation.
Usable ==
  /\ tcPc \in {"round", "guess", "inEncrypt", "inDecrypt"} => ccProvider /\ ccCipher
  /\ tcPc \in {"init", "round", "guess"} => ccStage = "none"
  /\ tcPc \in TcIn => ccRet \in {"OK", "ERROR"}
  /\ tcPc = "inInit" /\ ccRet = "OK" => ccProvider /\ ccCipher
  /\ tcPc = "inEncrypt" => ccCall.fn \in CcWorks
  /\ tcPc = "aborted" => ccRet = "ERROR"

\* The guesses of the rounds that are over, and of the one that is not.
Guesses ==
  /\ tcRight <= tcTotal + tcHits
  /\ tcTotal + tcHits <= TcIterations * tcRound + tcIter
  /\ tcPc \in {"init", "inInit", "round", "inEncrypt"} =>
       tcHits = 0 /\ tcTotal <= TcIterations * tcRound
  /\ tcPc = "inDecrypt" => tcIter < TcIterations

TcIInv == IInv /\ TcTypeOK /\ Usable /\ Guesses

\* The invariant holds initially.
LEMMA InitTcIInv == TcInit => TcIInv
<1> SUFFICES ASSUME TcInit PROVE TcIInv
  OBVIOUS
<1>1. IInv
  BY InitIInv DEF TcInit
<1>2. TcTypeOK
  BY TcAssumption DEF TcInit, TcTypeOK
<1>3. Usable
  BY DEF TcInit, CcInit, Usable, TcIn
<1>4. Guesses
  <2>1. TcIterations * 0 + 0 = 0 /\ TcIterations * 0 = 0
    BY TcAssumption
  <2> QED BY <2>1 DEF TcInit, Guesses
<1> QED BY <1>1, <1>2, <1>3, <1>4 DEF TcIInv

\* What main passes is in order.
LEMMA ArgumentsInOrder ==
  ASSUME ccProvider /\ ccCipher
  PROVE  /\ CcValidate("encrypt", TcArguments(TcPassLength)) = "OK"
         /\ \A length \in Nat : CcValidate("decrypt", TcArguments(length)) = "OK"
  BY TcAssumption DEF CcValidate, CcValidateData, TcArguments, MaxKey

\* One more round.
LEMMA OneMoreRound == \A i, r \in Nat : i * (r + 1) = i * r + i /\ i * r \in Nat
  BY SMT

\* main's calls keep it.
LEMMA CallTcIInv == TcIInv /\ TcCall => TcIInv'
<1> SUFFICES ASSUME TcIInv, TcCall PROVE TcIInv'
  OBVIOUS
<1> USE DEF TcIInv
<1>1. UNCHANGED <<tcRound, tcIter, tcEncLength, tcHits, tcTotal, tcRight>>
  BY DEF TcCall
<1>2. CASE TcCallInit
  <2>1. IInv'
    BY <1>2, NextIInv DEF TcCallInit, CcNext
  <2>2. /\ ccStage' = "none" /\ ccRet' \in {"OK", "ERROR"}
        /\ (ccRet' = "OK" => ccProvider' /\ ccCipher')
    BY <1>2 DEF TcCallInit, CcCryptInit, Usable
  <2>3. tcPc = "init" /\ tcPc' = "inInit"
    BY <1>2 DEF TcCallInit
  <2> QED BY <1>1, <2>1, <2>2, <2>3 DEF TcTypeOK, Usable, Guesses, TcIn
<1>3. CASE TcCallEncrypt
  <2>1. tcPc = "round" /\ tcPc' = "inEncrypt" /\ CcEnter("encrypt", TcArguments(TcPassLength))
    BY <1>3 DEF TcCallEncrypt
  <2>2. IInv'
    BY <2>1, EnterIInv, TcAssumption DEF CcWorks, TcArguments
  <2>3. ccProvider /\ ccCipher
    BY <2>1 DEF Usable
  <2>4. ccRet' = "OK" /\ UNCHANGED <<ccProvider, ccCipher>> /\ ccCall'.fn = "encrypt"
    BY <2>1, <2>3, ArgumentsInOrder DEF CcEnter
  <2> QED BY <1>1, <2>1, <2>2, <2>3, <2>4 DEF TcTypeOK, Usable, Guesses, TcIn, CcWorks
<1>4. CASE TcCallDecrypt
  <2>1. /\ tcPc = "guess" /\ tcPc' = "inDecrypt" /\ tcIter < TcIterations
        /\ CcEnter("decrypt", TcArguments(tcEncLength))
    BY <1>4 DEF TcCallDecrypt
  <2>2. IInv'
    BY <2>1, EnterIInv DEF CcWorks, TcArguments, TcTypeOK
  <2>3. ccProvider /\ ccCipher
    BY <2>1 DEF Usable
  <2>4. ccRet' = "OK" /\ UNCHANGED <<ccProvider, ccCipher>>
    BY <2>1, <2>3, ArgumentsInOrder DEF CcEnter, TcTypeOK
  <2> QED BY <1>1, <2>1, <2>2, <2>3, <2>4 DEF TcTypeOK, Usable, Guesses, TcIn
<1> QED BY <1>2, <1>3, <1>4 DEF TcCall

\* main's steps in between two calls keep it.
LEMMA MainTcIInv == TcIInv /\ TcMain => TcIInv'
<1> SUFFICES ASSUME TcIInv, TcMain PROVE TcIInv'
  OBVIOUS
<1> USE TcAssumption DEF TcIInv
<1>1. ASSUME UNCHANGED ccVars PROVE IInv'
  BY <1>1, NextIInv
<1>2. CASE TcAbort
  <2>1. tcPc' = "aborted" /\ ccRet' = "ERROR" /\ IInv'
    BY <1>1, <1>2 DEF TcAbort, TcReturned, Usable, TcIn, ccVars
  <2> QED BY <1>2, <2>1 DEF TcAbort, TcTypeOK, Usable, Guesses, TcIn
<1>3. CASE TcInitialised
  <2>1. /\ tcPc = "inInit" /\ tcPc' = "round"
        /\ ccProvider' /\ ccCipher' /\ ccStage' = "none" /\ IInv'
    BY <1>1, <1>3 DEF TcInitialised, TcReturned, Usable, ccVars
  <2> QED BY <1>3, <2>1 DEF TcInitialised, TcTypeOK, Usable, Guesses, TcIn
<1>4. CASE TcEncrypted
  <2>1. tcPc = "inEncrypt" /\ ccStage = "none" /\ UNCHANGED ccVars /\ ccRet = "OK"
    BY <1>4 DEF TcEncrypted, TcReturned
  <2>2. ccOutLength \in Nat
    BY <2>1 DEF IInv, CcTypeOK, Progress, Usable
  <2>3. ccProvider' /\ ccCipher' /\ ccStage' = "none" /\ IInv'
    BY <1>1, <2>1 DEF Usable, ccVars
  <2> QED BY <1>4, <2>1, <2>2, <2>3 DEF TcEncrypted, TcTypeOK, Usable, Guesses, TcIn
<1>5. CASE TcCompare
  <2>1. /\ tcPc = "inDecrypt" /\ ccStage = "none" /\ UNCHANGED ccVars
        /\ tcPc' = "guess" /\ tcIter' = tcIter + 1
        /\ UNCHANGED <<tcRound, tcEncLength, tcTotal>>
    BY <1>5 DEF TcCompare, TcReturned
  <2>2. PICK right, same \in BOOLEAN :
          /\ right => same
          /\ tcRight' = IF right THEN tcRight + 1 ELSE tcRight
          /\ tcHits' = IF same THEN tcHits + 1 ELSE tcHits
    BY <1>5 DEF TcCompare
  <2>3. ccProvider' /\ ccCipher' /\ ccStage' = "none" /\ IInv'
    BY <1>1, <2>1 DEF Usable, ccVars
  <2>4. \/ tcRight' = tcRight /\ tcHits' = tcHits
        \/ tcRight' = tcRight /\ tcHits' = tcHits + 1
        \/ tcRight' = tcRight + 1 /\ tcHits' = tcHits + 1
    BY <2>2
  <2>5. TcTypeOK'
    BY <2>1, <2>4 DEF TcTypeOK, Guesses
  <2>6. Guesses'
    BY <2>1, <2>4, OneMoreRound DEF TcTypeOK, Guesses
  <2> QED BY <2>1, <2>3, <2>5, <2>6 DEF Usable, TcIn
<1>6. CASE TcRoundEnds
  <2>1. /\ tcPc = "guess" /\ tcIter = TcIterations /\ tcPc' = "round" /\ tcRound' = tcRound + 1
        /\ tcTotal' = tcTotal + tcHits /\ tcHits' = 0
        /\ UNCHANGED <<tcIter, tcEncLength, tcRight, ccVars>>
    BY <1>6 DEF TcRoundEnds
  <2>2. /\ TcIterations * tcRound' = TcIterations * tcRound + TcIterations
        /\ TcIterations * tcRound \in Nat
    BY <2>1, OneMoreRound DEF TcTypeOK
  <2>3. ccProvider' /\ ccCipher' /\ ccStage' = "none" /\ IInv'
    BY <1>1, <2>1 DEF Usable, ccVars
  <2>4. TcTypeOK'
    BY <2>1 DEF TcTypeOK
  <2>5. Guesses'
    BY <2>1, <2>2 DEF TcTypeOK, Guesses
  <2> QED BY <2>1, <2>3, <2>4, <2>5 DEF Usable, TcIn
<1>7. CASE TcEnds
  <2>1. IInv'
    BY <1>1, <1>7 DEF TcEnds
  <2> QED BY <1>7, <2>1 DEF TcEnds, TcTypeOK, Usable, Guesses, TcIn
<1>8. CASE TcCall
  BY <1>8, CallTcIInv
<1> QED BY <1>2, <1>3, <1>4, <1>5, <1>6, <1>7, <1>8 DEF TcMain

\* Every step keeps it; what the library does in between only makes ccRet ERROR.
LEMMA NextTcIInv == TcIInv /\ [TcNext]_<<ccVars, tcVars>> => TcIInv'
<1> SUFFICES ASSUME TcIInv, [TcNext]_<<ccVars, tcVars>> PROVE TcIInv'
  OBVIOUS
<1>1. CASE TcMain
  BY <1>1, MainTcIInv
<1>2. CASE tcPc \in TcIn /\ CcRun /\ UNCHANGED tcVars
  <2>1. IInv'
    BY <1>2, NextIInv DEF TcIInv, CcNext
  <2>2. /\ UNCHANGED <<ccProvider, ccCipher, ccCall>>
        /\ ccRet' \in {ccRet, "ERROR"}
    BY <1>2 DEF CcRun, CcNew, CcEvp, CcEvpFails, CcFails, CcFin
  <2>3. TcTypeOK' /\ Guesses' /\ tcPc' = tcPc
    BY <1>2 DEF TcIInv, TcTypeOK, Guesses, tcVars
  <2> QED BY <1>2, <2>1, <2>2, <2>3 DEF TcIInv, Usable, TcIn
<1>3. CASE tcPc = "other" /\ CcNext /\ UNCHANGED tcVars
  <2>1. IInv' /\ TcTypeOK' /\ Guesses' /\ tcPc' = tcPc
    BY <1>3, NextIInv DEF TcIInv, TcTypeOK, Guesses, tcVars
  <2> QED BY <1>3, <2>1 DEF TcIInv, Usable, TcIn
<1>4. CASE UNCHANGED <<ccVars, tcVars>>
  <2>1. IInv'
    BY <1>4, NextIInv DEF TcIInv
  <2> QED BY <1>4, <2>1 DEF TcIInv, TcTypeOK, Usable, Guesses, tcVars, ccVars
<1> QED BY <1>1, <1>2, <1>3, <1>4 DEF TcNext, TcIn

\* The inductive invariant, from which the theorems below are read off.
LEMMA TcInvariance == TcSpec => []TcIInv
  BY InitTcIInv, NextTcIInv, PTL DEF TcSpec

\* The assertions of the benchmark fail only if OpenSSL does, and the number it
\* prints lies between the right guesses and all guesses.
THEOREM BenchmarkOK == TcSpec => []TcBenchmarkOK
<1>1. TcIInv => TcBenchmarkOK
  BY DEF TcIInv, Usable, Guesses, TcBenchmarkOK
<1> QED BY <1>1, TcInvariance, PTL

\* What the library promises it keeps when the benchmark is its caller.
THEOREM LibraryInBenchmark == TcSpec => [](CcEndsClean /\ CcInitPrecedes)
<1>1. TcIInv => CcEndsClean /\ CcInitPrecedes
  BY DEF TcIInv, IInv, Initialised, CalledInitialised, Context, Progress, CcWorks,
         CcEndsClean, CcInitPrecedes
<1> QED BY <1>1, TcInvariance, PTL
=============================================================================
