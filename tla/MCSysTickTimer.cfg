SPECIFICATION FairSpec
CONSTANT ReloadModulus = 4
INVARIANTS TypeOK CounterWithinPeriod
PROPERTIES ImplementsPeriodicTimer RequestsKeepComing
