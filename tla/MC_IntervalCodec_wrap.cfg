CONSTANTS
    subClassOf = subClassOf
    subOrganizationOf = subOrganizationOf
    subPropertyOf = subPropertyOf
    domain = domain
    range = range
    type = type
    memberOf = memberOf
    none = none
    ClassRoot = 0
    PropertyRoot = 900
    SubClassOf <- subClassOf
    SubOrganizationOf <- subOrganizationOf
    SubPropertyOf <- subPropertyOf
    Domain <- domain
    Range <- range
    RdfType <- type
    OtherPredicates = {memberOf}
    NoParent <- none
    Taxonomy <- MC_Layers
    Batch <- MC_Batch

SPECIFICATION Spec

\* The worker stops once its file is ingested.
CHECK_DEADLOCK FALSE

INVARIANT CountMatchesIntervals
