SPECIFICATION FairSpec
CONSTANTS
    Request = {r1, r2}
    Student = {s1, s2, s3}
    Nobody = Nobody
    MaxCapacity = 1
INVARIANTS TypeOK CountExact BoundedOverfill
PROPERTIES EveryRequestAnswered
