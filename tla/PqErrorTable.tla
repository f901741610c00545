---------------------------- MODULE PqErrorTable ----------------------------
(***************************************************************************)
(* psc/postgresql/exceptions.py, the class statements: the errors and the  *)
(* warnings of the driver, each with its base and its SQL state.           *)
(*                                                                         *)
(* An SQL state is the pair of its class, two characters, and the other    *)
(* three.  Base is the first base that is a class of the module; the mixin *)
(* Disconnection, which no lookup and no handler asks for, is left out.    *)
(***************************************************************************)
EXTENDS Sequences, Integers

Inherited == <<"inherited", "inherited">>

\* Classes of one base with states of one class.
Under(base, class, members) ==
    [i \in 1 .. Len(members) |->
       [name |-> members[i][1], base |-> base, code |-> <<class, members[i][2]>>]]
One(name, base, class, rest) == Under(base, class, << <<name, rest>> >>)
\* Classes that set no state of their own.
Grouping(base, names) ==
    [i \in 1 .. Len(names) |->
       [name |-> names[i], base |-> base, code |-> Inherited]]

Warnings ==
    One("Warning", "Message", "01", "000")
    \o Under("Warning", "01",
         << <<"DriverWarning", "-00">>, <<"DeprecationWarning", "P01">>,
            <<"DynamicResultSetsReturnedWarning", "00C">>,
            <<"ImplicitZeroBitPaddingWarning", "008">>,
            <<"NullValueEliminatedInSetFunctionWarning", "003">>,
            <<"PrivilegeNotGrantedWarning", "007">>,
            <<"PrivilegeNotRevokedWarning", "006">>,
            <<"StringDataRightTruncationWarning", "004">> >>)
    \o Under("DriverWarning", "01",
         << <<"IgnoredClientParameterWarning", "-CP">>,
            <<"TypeConversionWarning", "-TP">> >>)
    \o One("NoDataWarning", "Warning", "02", "000")
    \o One("NoMoreSetsReturned", "NoDataWarning", "02", "001")

DriverErrors ==
    One("Error", "Message", "", "")
    \o One("DriverError", "Error", "--", "000")
    \o Under("DriverError", "--",
         << <<"AuthenticationMethodError", "AUT">>, <<"InsecurityError", "SEC">>,
            <<"ConnectTimeoutError", "TOE">>, <<"TypeIOError", "TIO">>,
            <<"OperationError", "OPE">> >>)
    \o Under("TypeIOError", "--",
         << <<"ParameterError", "PIO">>, <<"ColumnError", "CIO">>,
            <<"CompositeError", "cIO">> >>)

\* States 03 to 39.
RequestErrors ==
    Grouping("Error", <<"TransactionError">>)
    \o One("SQLNotYetCompleteError", "Error", "03", "000")
    \o One("ConnectionError", "Error", "08", "000")
    \o Under("ConnectionError", "08",
         << <<"ConnectionDoesNotExistError", "003">>,
            <<"ConnectionFailureError", "006">>, <<"ClientCannotConnectError", "001">>,
            <<"ConnectionRejectionError", "004">>,
            <<"TransactionResolutionUnknownError", "007">>,
            <<"ProtocolError", "P01">> >>)
    \o One("TriggeredActionError", "Error", "09", "000")
    \o One("FeatureError", "Error", "0A", "000")
    \o One("TransactionInitiationError", "TransactionError", "0B", "000")
    \o One("LocatorError", "Error", "0F", "000")
    \o One("LocatorSpecificationError", "LocatorError", "0F", "001")
    \o One("GrantorError", "Error", "0L", "000")
    \o One("GrantorOperationError", "GrantorError", "0L", "P01")
    \o One("RoleSpecificationError", "Error", "0P", "000")
    \o One("CaseNotFoundError", "Error", "20", "000")
    \o One("CardinalityError", "Error", "21", "000")
    \o One("TriggeredDataChangeViolation", "Error", "27", "000")
    \o One("AuthenticationSpecificationError", "Error", "28", "000")
    \o One("DPDSEError", "Error", "2B", "000")
    \o One("DPDSEObjectError", "DPDSEError", "2B", "P01")
    \o One("SREError", "Error", "2F", "000")
    \o Under("SREError", "2F",
         << <<"FunctionExecutedNoReturnStatementError", "005">>,
            <<"DataModificationProhibitedError", "002">>,
            <<"StatementProhibitedError", "003">>,
            <<"ReadingDataProhibitedError", "004">> >>)
    \o One("EREError", "Error", "38", "000")
    \o Under("EREError", "38",
         << <<"ContainingSQLNotPermittedError", "001">>,
            <<"ModifyingSQLDataNotPermittedError", "002">>,
            <<"ProhibitedSQLStatementError", "003">>,
            <<"ReadingSQLDataNotPermittedError", "004">> >>)
    \o One("ERIEError", "Error", "39", "000")
    \o Under("ERIEError", "39",
         << <<"InvalidSQLState", "001">>, <<"NullValueNotAllowed", "004">>,
            <<"TriggerProtocolError", "P01">>, <<"SRFProtocolError", "P02">> >>)

TransactionErrors ==
    One("TRError", "TransactionError", "40", "000")
    \o Under("TRError", "40",
         << <<"DeadlockError", "P01">>, <<"IntegrityConstraintViolationError", "002">>,
            <<"SerializationError", "001">>,
            <<"StatementCompletionUnknownError", "003">> >>)
    \o One("ITSError", "TransactionError", "25", "000")
    \o Under("ITSError", "25",
         << <<"ActiveTransactionError", "001">>, <<"BranchAlreadyActiveError", "002">>,
            <<"BadAccessModeForBranchError", "003">>,
            <<"BadIsolationForBranchError", "004">>,
            <<"NoActiveTransactionForBranchError", "005">>,
            <<"ReadOnlyTransactionError", "006">>,
            <<"SchemaAndDataStatementsError", "007">>,
            <<"InconsistentCursorIsolationError", "008">>,
            <<"NoActiveTransactionError", "P01">>,
            <<"InFailedTransactionError", "P02">> >>)
    \o One("SavepointError", "TransactionError", "3B", "000")
    \o One("InvalidSavepointSpecificationError", "SavepointError", "3B", "001")
    \o One("TransactionTerminationError", "TransactionError", "2D", "000")

\* OverflowError is Python's own.
ResourceErrors ==
    One("IRError", "Error", "53", "000")
    \o Under("IRError", "53",
         << <<"MemoryError", "200">>, <<"DiskFullError", "100">>,
            <<"TooManyConnectionsError", "300">> >>)
    \o One("PLEError", "OverflowError", "54", "000")
    \o Under("PLEError", "54",
         << <<"ComplexityOverflowError", "001">>, <<"ColumnOverflowError", "011">>,
            <<"ArgumentOverflowError", "023">> >>)
    \o One("ONIPSError", "Error", "55", "000")
    \o Under("ONIPSError", "55",
         << <<"ObjectInUseError", "006">>, <<"ImmutableRuntimeParameterError", "P02">>,
            <<"UnavailableLockError", "P03">> >>)

SyntaxAndAccessErrors ==
    One("SEARVError", "Error", "42", "000")
    \o Under("SEARVError", "42",
         << <<"SEARVNameError", "602">>, <<"NameTooLongError", "622">>,
            <<"ReservedNameError", "939">>, <<"ForeignKeyCreationError", "830">>,
            <<"InsufficientPrivilegeError", "501">>, <<"GroupingError", "803">>,
            <<"RecursionError", "P19">>, <<"WindowError", "P20">>,
            <<"SyntaxError", "601">>, <<"ColumnReferenceError", "P10">> >>)
    \o Grouping("SEARVError",
         <<"TypeError", "UndefinedError", "DuplicateError", "AmbiguityError",
           "DefinitionError">>)
    \o Under("TypeError", "42",
         << <<"CoercionError", "846">>, <<"TypeMismatchError", "804">>,
            <<"IndeterminateTypeError", "P18">>, <<"WrongObjectTypeError", "809">> >>)
    \o Under("UndefinedError", "42",
         << <<"UndefinedColumnError", "703">>, <<"UndefinedFunctionError", "883">>,
            <<"UndefinedTableError", "P01">>, <<"UndefinedParameterError", "P02">>,
            <<"UndefinedObjectError", "704">> >>)
    \o Under("DuplicateError", "42",
         << <<"DuplicateColumnError", "701">>, <<"DuplicateCursorError", "P03">>,
            <<"DuplicateDatabaseError", "P04">>, <<"DuplicateFunctionError", "723">>,
            <<"DuplicatePreparedStatementError", "P05">>,
            <<"DuplicateSchemaError", "P06">>, <<"DuplicateTableError", "P07">>,
            <<"DuplicateAliasError", "712">>, <<"DuplicateObjectError", "710">> >>)
    \o Under("AmbiguityError", "42",
         << <<"AmbiguousColumnError", "702">>, <<"AmbiguousFunctionError", "725">>,
            <<"AmbiguousParameterError", "P08">>, <<"AmbiguousAliasError", "P09">> >>)
    \o Under("DefinitionError", "42",
         << <<"ColumnDefinitionError", "611">>, <<"CursorDefinitionError", "P11">>,
            <<"DatabaseDefinitionError", "P12">>, <<"FunctionDefinitionError", "P13">>,
            <<"PreparedStatementDefinitionError", "P14">>,
            <<"SchemaDefinitionError", "P15">>, <<"TableDefinitionError", "P16">>,
            <<"ObjectDefinitionError", "P17">> >>)
    \o One("CursorStateError", "Error", "24", "000")
    \o One("WithCheckOptionError", "Error", "44", "000")
    \o Grouping("Error", <<"NameError">>)
    \o One("CatalogNameError", "NameError", "3D", "000")
    \o One("CursorNameError", "NameError", "34", "000")
    \o One("StatementNameError", "NameError", "26", "000")
    \o One("SchemaNameError", "NameError", "3F", "000")
    \o One("ICVError", "Error", "23", "000")
    \o Under("ICVError", "23",
         << <<"RestrictError", "001">>, <<"NotNullError", "502">>,
            <<"ForeignKeyError", "503">>, <<"UniqueError", "505">>,
            <<"CheckError", "514">> >>)

\* EscapeCharacterError is there twice.
DataErrors ==
    One("DataError", "Error", "22", "000")
    \o Under("DataError", "22",
         << <<"StringRightTruncationError", "001">>, <<"StringDataLengthError", "026">>,
            <<"ZeroLengthString", "00F">>, <<"EncodingError", "021">>,
            <<"ArrayElementError", "02E">>, <<"SpecificTypeMismatch", "00G">>,
            <<"NullValueNotAllowedError", "004">>,
            <<"NullValueNoIndicatorParameter", "002">>, <<"ZeroDivisionError", "012">>,
            <<"FloatingPointError", "P01">>, <<"AssignmentError", "005">>,
            <<"IndicatorOverflowError", "022">>, <<"BadCopyError", "P04">>,
            <<"TextRepresentationError", "P02">>, <<"BinaryRepresentationError", "P03">>,
            <<"UntranslatableCharacterError", "P05">>,
            <<"NonstandardUseOfEscapeCharacterError", "P06">>,
            <<"NotXMLError", "00L">>, <<"XMLDocumentError", "00M">>,
            <<"XMLContentError", "00N">>, <<"XMLCommentError", "00S">>,
            <<"XMLProcessingInstructionError", "00T">>,
            <<"DateTimeFormatError", "007">>, <<"TimeZoneDisplacementValueError", "009">>,
            <<"DateTimeFieldOverflowError", "008">>,
            <<"IntervalFieldOverflowError", "015">>, <<"LogArgumentError", "01E">>,
            <<"PowerFunctionArgumentError", "01F">>,
            <<"WidthBucketFunctionArgumentError", "01G">>,
            <<"CastCharacterValueError", "018">>, <<"EscapeCharacterError", "019">>,
            <<"EscapeOctetError", "00D">>, <<"EscapeSequenceError", "025">>,
            <<"EscapeCharacterConflictError", "00B">>, <<"EscapeCharacterError", "00C">>,
            <<"SubstringError", "011">>, <<"TrimError", "027">>,
            <<"IndicatorParameterValueError", "010">>, <<"LimitValueError", "01W">>,
            <<"OffsetValueError", "01X">>, <<"ParameterValueError", "023">>,
            <<"RegularExpressionError", "01B">>, <<"NumericRangeError", "003">>,
            <<"UnterminatedCStringError", "024">> >>)

ServerErrors ==
    One("InternalError", "Error", "XX", "000")
    \o Under("InternalError", "XX",
         << <<"DataCorruptedError", "001">>, <<"IndexCorruptedError", "002">> >>)
    \o One("SIOError", "Error", "58", "000")
    \o Under("SIOError", "58",
         << <<"UndefinedFileError", "P01">>, <<"DuplicateFileError", "P02">> >>)
    \o One("CFError", "Error", "F0", "000")
    \o One("LockFileExistsError", "CFError", "F0", "001")
    \o One("OIError", "Error", "57", "000")
    \o Under("OIError", "57",
         << <<"QueryCanceledError", "014">>, <<"AdminShutdownError", "P01">>,
            <<"CrashShutdownError", "P02">>, <<"ServerNotReadyError", "P03">> >>)
    \o One("PLPGSQLError", "Error", "P0", "000")
    \o Under("PLPGSQLError", "P0",
         << <<"PLPGSQLRaiseError", "001">>, <<"PLPGSQLNoDataFoundError", "002">>,
            <<"PLPGSQLTooManyRowsError", "003">> >>)

Statements ==
    Warnings \o DriverErrors \o RequestErrors \o TransactionErrors \o ResourceErrors
    \o SyntaxAndAccessErrors \o DataErrors \o ServerErrors

\* What the names of a module stand for in the end: a class statement for a
\* name that is taken replaces what it stood for.
Named(statements) ==
    LET last == {i \in 1 .. Len(statements) :
                   \A j \in i + 1 .. Len(statements) :
                     statements[j].name # statements[i].name}
    IN [n \in {statements[i].name : i \in last} |->
          statements[CHOOSE i \in last : statements[i].name = n]]
Namespace == Named(Statements)
ClassNames == DOMAIN Namespace

\* issubclass(m, n) and the inherited attribute code.
Superclasses[n \in ClassNames] ==
    {n} \cup IF Namespace[n].base \in ClassNames
             THEN Superclasses[Namespace[n].base] ELSE {}
CodeAttribute[n \in ClassNames] ==
    IF Namespace[n].code # Inherited THEN Namespace[n].code
    ELSE CodeAttribute[Namespace[n].base]

\* LimitValueError.pg_code.
PgCodes == [n \in {"LimitValueError"} |-> <<"22", "020">>]
=============================================================================
