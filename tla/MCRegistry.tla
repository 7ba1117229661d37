----------------------------- MODULE MCRegistry -----------------------------
(***************************************************************************)
(* Registry for TLC: the two registered document types and a custom one,   *)
(* each disclosing its own namespace and another's, with elements found by *)
(* name, by pattern, in only one of the namespaces, and not at all.        *)
(***************************************************************************)
EXTENDS Registry, TLC

MCNames ==
    <<"age_over_", "age_over_18", "age_over_21", "age_over_2x", "custom", "document_number",
      "eu.europa.ec.eudi.pid.1", "family_name", "org.iso.18013.5.1", "portrait",
      "resident_address">>

MCSuffix ==
    "age_over_" :> <<>> @@ "age_over_18" :> <<"digit", "digit">>
    @@ "age_over_21" :> <<"digit", "digit">> @@ "age_over_2x" :> <<"digit", "other">>

MCDocTypes == {"org.iso.18013.5.1.mDL", "eu.europa.ec.eudi.pid.1", "custom"}
MCNamespaces == {"org.iso.18013.5.1", "eu.europa.ec.eudi.pid.1", "custom"}
MCTypes == {"bool", "bytes", "string", "other"}

Disclosures ==
    UNION {[s -> MCTypes] : s \in {{}, {"age_over_"}, {"age_over_18"}, {"age_over_21"},
                                   {"age_over_2x"}, {"resident_address"}}}
    \cup {[id \in {"portrait", "family_name", "document_number"} |-> t] : t \in MCTypes}

MCDocuments ==
    {[docType |-> t, namespaces |-> ns :> a] :
        t \in MCDocTypes, ns \in MCNamespaces, a \in Disclosures}
    \cup {[docType |-> t, namespaces |-> [ns \in MCNamespaces |-> a]] :
        t \in MCDocTypes,
        a \in {<<>>, "portrait" :> "bytes" @@ "resident_address" :> "string"}}
    \cup {[docType |-> t, namespaces |-> <<>>] : t \in MCDocTypes}
=============================================================================
