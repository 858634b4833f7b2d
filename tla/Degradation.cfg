SPECIFICATION DegradationSpec
CONSTANTS
    DbFailureThreshold = 3
    RedisFailureThreshold = 2
    AutoRecovery = "missing"
    HealthAnswers <- AnyAnswer
    MaxCount = 5
PROPERTY ThresholdDegrades
