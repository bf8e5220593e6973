SPECIFICATION Spec
CONSTANT MaxTables = 1
INVARIANTS TypeOK OnlyInterferenceStopsTheSeed CompleteSeedIsWhole EveryRouteHasAUser
