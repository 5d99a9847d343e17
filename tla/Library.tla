-------------------------------- MODULE Library --------------------------------
(***************************************************************************)
(* The parts of the packages that wait for nobody but their callers, side  *)
(* by side, and what each of them promises: the contexts of @bunt/unit,    *)
(* the headers of an answer of @bunt/web, the logger of @bunt/util, the    *)
(* file storage of @bunt/fs, and the pools and callbacks of @bunt/async.   *)
(* They share no state.                                                    *)
(***************************************************************************)

CONSTANTS
    Units, ContextOf, Lineage, Declared, Held, Services, Plain, Disposable, NoUnit,
    Lower, Policies, NoPolicy, Asked, RouteTable, OwnHeaders, ServerHeaders, CookieNames,
    MaxCookies,
    Transports, Severities, Accepts, Disposers, MaxLogs, MaxAdds,
    FileCallers, Regions, Default, None, NoBucket, NoObject, MaxWrites,
    Consumers, MaxBuffer, MaxPushed, End,
    Pullers, MaxEmitted, Falsy

VARIABLES
    step, unit, promise, runs, values, cache, disposables,
    policy, asked, server, stage, answer, ownHeaders, cookies, headers,
    severity, attached, transports, writers, called, closing, writes, writing, logged, disposer,
    listed, region, object, written, calls,
    offered, pushed, buffer, pooled, reader, factory, poolDisposer, alive,
    emitted, emitQueue, puller, listens, linked, dropped

unitVars == <<step, unit, promise, runs, values, cache, disposables>>
answerVars == <<policy, asked, server, stage, answer, ownHeaders, cookies, headers>>
logVars == <<severity, attached, transports, writers, called, closing, writes, writing,
             logged, disposer>>
fileVars == <<listed, region, object, written, calls>>
poolVars == <<offered, pushed, buffer, pooled, reader, factory, poolDisposer, alive>>
callbackVars == <<emitted, emitQueue, puller, listens, linked, dropped>>

Unit == INSTANCE Contexts WITH state <- unit
Web == INSTANCE Answer WITH own <- ownHeaders
Log == INSTANCE Logger
Fs == INSTANCE FileStorage WITH Callers <- FileCallers
Pool == INSTANCE AsyncPool WITH pending <- pooled, disposer <- poolDisposer
Callback == INSTANCE AsyncCallback WITH queue <- emitQueue

ASSUME LibraryAssumption ==
    /\ Unit!ContextsAssumption /\ Fs!StorageAssumption /\ Pool!PoolAssumption
    /\ Callback!CallbackAssumption /\ Web!AnswerAssumption

------------------------------------------------------------------------------
\* Units that are made at the same time share services, and every value that can be
\* disposed of is noted.
ContextsAreShared == Unit!TypeOK /\ Unit!ServicesAreShared /\ Unit!DisposablesAreNoted

\* An answer tells the origin what the validator allows, whoever makes it, and of two
\* who name a header the later has the last word.
HeadersAreKept == Web!TypeOK /\ Web!OriginIsToldTheSame /\ Web!LastWordIsKept

\* The logger never writes to a transport that reset() has let go of, unless it has been
\* attached again, and its dispose() leaves no write behind.
LogsAreFlushed == []Log!TypeOK /\ []Log!WritersAreOpen /\ Log!DisposeWaits

\* The file storage answers with what is stored, stores files alone, and where save()
\* is done there is a bucket.
FilesAreStored == Fs!StatIsNotOlder /\ Fs!OnlyFilesArePut /\ Fs!SavedExists

\* AsyncPool and AsyncCallback give every value to those it is for, in order.
EveryValueIsDelivered ==
    /\ Pool!TypeOK /\ Callback!TypeOK
    /\ Pool!Delivery /\ Callback!CallbackDelivery
================================================================================
