SPECIFICATION FairSpec
CONSTANT Target = 3
INVARIANTS NoDoubleExposure Traceable FinalizedTruth
PROPERTIES EntryLedgerSpec EvidenceMonotone ResolvableFinalizes
CHECK_DEADLOCK FALSE
