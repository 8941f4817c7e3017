SPECIFICATION FairSpec
INVARIANTS TypeOK CallbacksInOrder ConnectedIsAnnounced FlagAgrees
PROPERTIES LossReported
