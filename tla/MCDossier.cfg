\* Every order of documents, ageing, probes, enrichment and decisions, over eight stories.
SPECIFICATION Spec
CONSTANTS
    Stories <- AllTold
    Decisions <- Reviews
    NoCandidate = NoCandidate
INVARIANTS TypeOK RiskNeverHelps LabelEarned StageEvidenced RoundsTraceable
PROPERTIES FindingNeverHurts TimeNeverHelps StaleNeedsEvidence StageNeverFalls
