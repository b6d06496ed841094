\* Every flag headers map against every template headers map, with peer,
\* peer-list and thrift fields set, unset, relative, absolute or not a
\* URL, for templates in four places.
CONSTANTS
    FlagOptions <- MCFlagOptions
    Templates <- MCTemplates
    Cwd <- MCCwd
SPECIFICATION Spec
INVARIANT FlagsOverrideTemplate
INVARIANT ResolvesBesideTemplate
\* readYAMLRequest returns; nothing follows it in this model.
CHECK_DEADLOCK FALSE
