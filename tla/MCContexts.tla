------------------------------- MODULE MCContexts ------------------------------
(* Contexts for Contexts: two units of a context whose class derives from Base, *)
(* and one of another context of Base, which share services under properties of *)
(* the same and of another name; one property is not set, one holds a value.    *)
EXTENDS TLC

CONSTANTS u1, u2, u3, s1, s2, s3, value, own, base
MCContextOf == u1 :> own @@ u2 :> own @@ u3 :> base
MCLineage == own :> <<"Own", "Base">> @@ base :> <<"Base">>
MCDeclared == "Own" :> <<"db", "log">> @@ "Base" :> <<"log", "queue", "config", "unset">>
MCHeld == own :> ("db" :> s1 @@ "log" :> s2 @@ "queue" :> s3 @@ "config" :> value)
       @@ base :> ("log" :> s2 @@ "queue" :> s1 @@ "config" :> value)
================================================================================
