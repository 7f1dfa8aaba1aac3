SPECIFICATION Spec
INVARIANT GrantsTheEntitlement
PROPERTY GraverNeverWeaker
PROPERTY CongestionAloneNeverActs
