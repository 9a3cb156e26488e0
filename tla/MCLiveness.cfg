SPECIFICATION FairSpec
CHECK_DEADLOCK FALSE
PROPERTIES Drains GoesOffline UpgradeEnds CloseReleases Delivered
