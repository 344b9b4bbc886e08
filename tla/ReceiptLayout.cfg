SPECIFICATION RegistrySpec
INVARIANT SealsAreNotTooSmall
CHECK_DEADLOCK FALSE
